---- MODULE Spec2Model ----
(***************************************************************************)
(* A model of the Xero analytics engine (getXeroAnalytics) and of the      *)
(* shared SDK client it runs on.                                           *)
(*                                                                         *)
(* Representation of JavaScript values:                                    *)
(*   - an optional number is a sequence: <<>> is undefined, <<n>> is n;    *)
(*     amounts and quantities are integers;                                *)
(*   - an optional string is a string, "" standing for undefined or ''     *)
(*     (the code only tests these with ||, ! and String(x || ''));         *)
(*   - a Date is a sequence: <<>> is Invalid Date, <<z>> is UTC midnight   *)
(*     of day z, counted from 1970-01-01;                                  *)
(*   - a date string is a record [kind, y, m, d]: "none" (undefined or     *)
(*     ''), "bad" (text that Date cannot parse) or "ymd" (YYYY-MM-DD);     *)
(*   - a formatted key "YYYY-MM-DD" is the tuple <<y, m, d>> and a month   *)
(*     key "YYYY-MM" the tuple <<y, m>>: the zero padded strings sort as   *)
(*     the tuples do;                                                      *)
(*   - a Map is the sequence of its entries [k, v] in insertion order.     *)
(***************************************************************************)
EXTENDS Integers, Sequences, FiniteSets, TLC

----------------------------------------------------------------------------
(* Optional values *)

Has(o) == o # <<>>

\* Number(x ?? 0)
NumOr0(o) == IF o = <<>> THEN 0 ELSE o[1]

\* a || b on strings
OrStr(a, b) == IF a # "" THEN a ELSE b

\* a ?? b, a !== undefined ? a : b on optional numbers
OrNum(a, b) == IF a # <<>> THEN a ELSE b

----------------------------------------------------------------------------
(* String functions, tabulated on the strings of the document universe *)

\* String.prototype.toUpperCase
toUpperCase(s) ==
  CASE s = "accrec" -> "ACCREC"
    [] s = "paid" -> "PAID"
    [] s = "w1" -> "W1"
    [] s = "x9" -> "X9"
    [] s = "Widget A" -> "WIDGET A"
    [] s = "widget-a" -> "WIDGET-A"
    [] s = "Gadget" -> "GADGET"
    [] s = "Inclusive" -> "INCLUSIVE"
    [] s = "Exclusive" -> "EXCLUSIVE"
    [] s = "unknown" -> "UNKNOWN"
    [] OTHER -> s

\* String.prototype.toLowerCase
toLowerCase(s) ==
  CASE s = "Inclusive" -> "inclusive"
    [] s = "INCLUSIVE" -> "inclusive"
    [] s = "Exclusive" -> "exclusive"
    [] s = "NoTax" -> "notax"
    [] s = "Unauthorized" -> "unauthorized"
    [] s = "Forbidden" -> "forbidden"
    [] OTHER -> s

\* lower case, every character outside [a-z0-9\s] to a space, runs of white
\* space to one space, trimmed
normalizeText(s) ==
  CASE s = "Widget A" -> "widget a"
    [] s = "widget-a" -> "widget a"
    [] s = "WIDGET A" -> "widget a"
    [] s = "Gadget" -> "gadget"
    [] s = "W1" -> "w1"
    [] s = "X9" -> "x9"
    [] s = "PO-7" -> "po 7"
    [] OTHER -> s

----------------------------------------------------------------------------
(* Dates: the proleptic Gregorian calendar of Date.UTC and getUTC*          *)

\* Date.UTC(y, m - 1, d) in days
DaysFromCivil(y, m, d) ==
  LET yy == IF m <= 2 THEN y - 1 ELSE y
      era == yy \div 400
      yoe == yy - era * 400
      mp == IF m > 2 THEN m - 3 ELSE m + 9
      doy == (153 * mp + 2) \div 5 + d - 1
      doe == yoe * 365 + yoe \div 4 - yoe \div 100 + doy
  IN era * 146097 + doe - 719468

\* <<getUTCFullYear, getUTCMonth + 1, getUTCDate>> of day z
CivilFromDays(z) ==
  LET zz == z + 719468
      era == zz \div 146097
      doe == zz - era * 146097
      yoe == (doe - doe \div 1460 + doe \div 36524 - doe \div 146096) \div 365
      doy == doe - (365 * yoe + yoe \div 4 - yoe \div 100)
      mp == (5 * doy + 2) \div 153
      d == doy - (153 * mp + 2) \div 5 + 1
      m == IF mp < 10 THEN mp + 3 ELSE mp - 9
      y == yoe + era * 400 + (IF m <= 2 THEN 1 ELSE 0)
  IN <<y, m, d>>

\* getUTCDay: 0 is Sunday; 1970-01-01 was a Thursday
getUTCDay(z) == (z + 4) % 7

NoDateStr == [kind |-> "none", y |-> 0, m |-> 0, d |-> 0]

BadDateStr == [kind |-> "bad", y |-> 0, m |-> 0, d |-> 0]

YMD(y, m, d) == [kind |-> "ymd", y |-> y, m |-> m, d |-> d]

\* new Date(s) and new Date(s + 'T00:00:00Z') for a non-empty string s
ParseDate(s) ==
  IF s.kind = "ymd" THEN <<DaysFromCivil(s.y, s.m, s.d)>> ELSE <<>>

\* a >= b and a <= b on Dates: false when either is Invalid Date (NaN)
DateGE(a, b) == a # <<>> /\ b # <<>> /\ a[1] >= b[1]

DateLE(a, b) == a # <<>> /\ b # <<>> /\ a[1] <= b[1]

startOfWeekUTC(z) == z - ((getUTCDay(z) + 6) % 7)

startOfMonthUTC(z) ==
  LET c == CivilFromDays(z) IN DaysFromCivil(c[1], c[2], 1)

\* toISOString().slice(0, 10) of a valid Date
fmtYMD(z) == CivilFromDays(z)

bucketKey(z, g) ==
  IF g = "day" THEN fmtYMD(z)
  ELSE IF g = "week" THEN fmtYMD(startOfWeekUTC(z))
  ELSE fmtYMD(startOfMonthUTC(z))

monthKey(z) == LET c == CivilFromDays(z) IN <<c[1], c[2]>>

\* key order of Array.prototype.sort and localeCompare on the padded strings
RECURSIVE KeyLess(_, _)
KeyLess(a, b) ==
  IF a = <<>> \/ b = <<>> THEN a = <<>> /\ b # <<>>
  ELSE IF a[1] # b[1] THEN a[1] < b[1]
  ELSE KeyLess(Tail(a), Tail(b))

----------------------------------------------------------------------------
(* Maps in insertion order, folds and sorting *)

MapHas(m, k) == \E i \in 1..Len(m) : m[i].k = k

MapIdx(m, k) == CHOOSE i \in 1..Len(m) : m[i].k = k

\* m.get(k) || dflt
MapGet(m, k, dflt) == IF MapHas(m, k) THEN m[MapIdx(m, k)].v ELSE dflt

\* m.set(k, v): a new key goes last, a present key keeps its place
MapSet(m, k, v) ==
  IF MapHas(m, k) THEN [m EXCEPT ![MapIdx(m, k)].v = v]
  ELSE Append(m, [k |-> k, v |-> v])

\* Array.prototype.reduce and for...of: Op folded over s from the left
FoldSeq(Op(_, _), base, s) ==
  LET f[i \in 0..Len(s)] == IF i = 0 THEN base ELSE Op(f[i - 1], s[i])
  IN f[Len(s)]

\* stable insertion of x into the sorted sequence s; Before(a, b) holds when
\* the comparator puts a strictly before b
InsertSorted(Before(_, _), s, x) ==
  LET n == Cardinality({i \in 1..Len(s) : ~Before(x, s[i])})
  IN SubSeq(s, 1, n) \o <<x>> \o SubSeq(s, n + 1, Len(s))

\* Array.prototype.sort (stable) with the comparator's strict order Before
SortBy(Before(_, _), s) ==
  FoldSeq(LAMBDA acc, x : InsertSorted(Before, acc, x), <<>>, s)

----------------------------------------------------------------------------
(* Document filter: getXeroAnalytics, "Filter to in-range, good-type/status" *)

\* (inv as any).date ?? (inv as any).Date
docDate(inv) == IF inv.date.kind # "none" THEN inv.date ELSE inv.Date

\* String((inv as any).type ?? (inv as any).Type ?? '').toUpperCase()
docType(inv) == toUpperCase(OrStr(inv.type, inv.Type))

isSales(inv) ==
  docType(inv) = "ACCREC" \/ docType(inv) = "ACCRECCREDIT" \/ inv.type = ""

isPurchase(inv) == docType(inv) = "ACCPAY"

typeOk(inv, input) == isSales(inv) \/ (input.includePurchases /\ isPurchase(inv))

\* String((inv as any).status ?? (inv as any).Status ?? '').toUpperCase()
docStatus(inv) == toUpperCase(OrStr(inv.status, inv.Status))

\* a filter that lets every status through
isGoodStatusAlways(inv) == TRUE

isGoodStatus(inv) ==
  docStatus(inv) = "AUTHORISED" \/ docStatus(inv) = "PAID" \/ docStatus(inv) = ""

\* the filter callback: the branch a fetched document leaves through
\* a filter that tests type and status before the presence of a date
ClassifyTypeFirst(inv, input, start, end) ==
  IF ~typeOk(inv, input) THEN "nonSales"
  ELSE IF ~isGoodStatus(inv) THEN "badStatus"
  ELSE IF docDate(inv).kind = "none" THEN "noDate"
  ELSE IF DateGE(ParseDate(docDate(inv)), start)
          /\ DateLE(ParseDate(docDate(inv)), end) THEN "keep"
  ELSE "outOfRange"

Classify(inv, input, start, end) ==
  IF docDate(inv).kind = "none" THEN "noDate"
  ELSE IF ~typeOk(inv, input) THEN "nonSales"
  ELSE IF ~isGoodStatus(inv) THEN "badStatus"
  ELSE IF DateGE(ParseDate(docDate(inv)), start)
          /\ DateLE(ParseDate(docDate(inv)), end) THEN "keep"
  ELSE "outOfRange"

CountClass(fetchedAll, input, start, end, c) ==
  Cardinality({i \in 1..Len(fetchedAll) :
                 Classify(fetchedAll[i], input, start, end) = c})

FilterInvoices(fetchedAll, input, start, end) ==
  [invoices |->
     SelectSeq(fetchedAll, LAMBDA inv : Classify(inv, input, start, end) = "keep"),
   excludedNonSales |-> CountClass(fetchedAll, input, start, end, "nonSales"),
   excludedStatus |-> CountClass(fetchedAll, input, start, end, "badStatus")]

----------------------------------------------------------------------------
(* Aggregate by bucket *)

\* (inv.type || '').toUpperCase() === 'ACCRECCREDIT' ? -1 : 1
Sign(inv) == IF toUpperCase(inv.type) = "ACCRECCREDIT" THEN -1 ELSE 1

\* new Date(inv.date ?? Date.now()), as a day; now is the current day
docDay(inv, now) ==
  IF inv.date.kind = "none" THEN now ELSE ParseDate(inv.date)[1]

\* (inv as any).lineItems || (inv as any).LineItems || []
docItems(inv) == IF inv.lineItems # <<>> THEN inv.lineItems ELSE inv.LineItems

\* typeof li.lineAmount === 'number' || typeof li.unitAmount === 'number'
hasAmountLower(li) == Has(li.lineAmount) \/ Has(li.unitAmount)

\* (q == null || q === 0) && hasAmount: the quantity is inferred as 1
InfersQty(q, hasAmount) == (q = <<>> \/ q = <<0>>) /\ hasAmount

EffQty(q, hasAmount) == IF InfersQty(q, hasAmount) THEN 1 ELSE NumOr0(q)

\* the qty reduce of the bucket fold, with the no-line inference
BucketQty(inv) ==
  LET items == docItems(inv)
      lines == FoldSeq(LAMBDA s, li :
                 s + Sign(inv) * EffQty(li.quantity, hasAmountLower(li)), 0, items)
  IN IF Len(items) = 0 /\ Has(inv.total) THEN lines + Sign(inv) * 1 ELSE lines

BucketInferred(inv) ==
  LET items == docItems(inv)
      lines == Cardinality({i \in 1..Len(items) :
                 InfersQty(items[i].quantity, hasAmountLower(items[i]))})
  IN IF Len(items) = 0 /\ Has(inv.total) THEN lines + 1 ELSE lines

\* li.lineAmount ?? ((li.unitAmount ?? 0) * (li.quantity ?? 0)), less the tax
LinePretaxLower(li) ==
  (IF Has(li.lineAmount) THEN li.lineAmount[1]
   ELSE NumOr0(li.unitAmount) * NumOr0(li.quantity)) - NumOr0(li.taxAmount)

totalLinesPretax(inv) ==
  FoldSeq(LAMBDA s, li : s + Sign(inv) * LinePretaxLower(li), 0, docItems(inv))

taxSum(inv) == FoldSeq(LAMBDA s, li : s + NumOr0(li.taxAmount), 0, docItems(inv))

\* the document's sales in the bucket fold
BucketTotal(inv) ==
  IF Has(inv.total)
  THEN IF inv.lineAmountTypes # "" /\ toLowerCase(inv.lineAmountTypes) = "inclusive"
       THEN Sign(inv) * (inv.total[1] - taxSum(inv))
       ELSE Sign(inv) * inv.total[1]
  ELSE totalLinesPretax(inv)

\* current.quantity += qty; current.sales += total; map.set(key, current); the
\* credit sums when sign === -1
BucketAdd(acc, key, qty, total, inferred, credit) ==
  [map |-> MapSet(acc.map, key,
                  [quantity |-> MapGet(acc.map, key, [quantity |-> 0, sales |-> 0]).quantity + qty,
                   sales |-> MapGet(acc.map, key, [quantity |-> 0, sales |-> 0]).sales + total]),
   inferredQtyLines |-> acc.inferredQtyLines + inferred,
   creditCount |-> acc.creditCount + (IF credit THEN 1 ELSE 0),
   creditQty |-> acc.creditQty + (IF credit THEN qty ELSE 0),
   creditSales |-> acc.creditSales + (IF credit THEN total ELSE 0)]

BucketStep(acc, inv, granularity, now) ==
  BucketAdd(acc, bucketKey(docDay(inv, now), granularity), BucketQty(inv),
            BucketTotal(inv), BucketInferred(inv), Sign(inv) = -1)

BucketFold(invoices, granularity, now) ==
  FoldSeq(LAMBDA acc, inv : BucketStep(acc, inv, granularity, now),
          [map |-> <<>>, inferredQtyLines |-> 0, creditCount |-> 0,
           creditQty |-> 0, creditSales |-> 0],
          invoices)

\* Array.from(map.keys()).sort() mapped to the entries
SortedByKey(m) == SortBy(LAMBDA a, b : KeyLess(a.k, b.k), m)

SeriesOf(sorted) ==
  [i \in 1..Len(sorted) |->
     [key |-> sorted[i].k, quantity |-> sorted[i].v.quantity,
      sales |-> sorted[i].v.sales]]

BuildSeries(map) == SeriesOf(SortedByKey(map))

BuildTotals(series) ==
  FoldSeq(LAMBDA acc, s : [qty |-> acc.qty + s.quantity, sales |-> acc.sales + s.sales],
          [qty |-> 0, sales |-> 0], series)

\* invoices.sort((a, b) => new Date(b.date ?? 0) - new Date(a.date ?? 0)):
\* newest first, in place; a document without `date` sorts as 1970-01-01
sortDay(inv) == IF inv.date.kind = "none" THEN 0 ELSE ParseDate(inv.date)[1]

SortInvoices(invoices) == SortBy(LAMBDA a, b : sortDay(a) > sortDay(b), invoices)

BuildRecentInvoices(sorted) ==
  [i \in 1..Len(sorted) |->
     [id |-> OrStr(sorted[i].invoiceID, sorted[i].invoiceNumber),
      number |-> sorted[i].invoiceNumber,
      status |-> sorted[i].status,
      total |-> NumOr0(sorted[i].total),
      date |-> IF sorted[i].date.kind = "none" THEN <<>>
               ELSE fmtYMD(ParseDate(sorted[i].date)[1])]]

----------------------------------------------------------------------------
(* Catalog indexes *)

\* itemsIndex: upper-cased code -> item, for the items that have a code
BuildItemsIndex(allItems) ==
  FoldSeq(LAMBDA m, it :
            IF it.code # "" THEN MapSet(m, toUpperCase(it.code), it) ELSE m,
          <<>>, allItems)

\* itemsNameIndex: normalised name -> item, over the entries of itemsIndex
BuildItemsNameIndex(itemsIndex) ==
  FoldSeq(LAMBDA m, e :
            IF e.v.name # "" THEN MapSet(m, normalizeText(e.v.name), e.v) ELSE m,
          <<>>, itemsIndex)

NoItem == [code |-> "", name |-> ""]

\* 'Invoice ' + x, tabulated on the identifiers of the document universe
InvoiceTitle(x) ==
  CASE x = "" -> "Invoice "
    [] x = "undefined" -> "Invoice undefined"
    [] x = "INV-7" -> "Invoice INV-7"
    [] x = "id1" -> "Invoice id1"
    [] x = "id2" -> "Invoice id2"
    [] x = "id3" -> "Invoice id3"
    [] x = "id4" -> "Invoice id4"
    [] OTHER -> "Invoice *"

----------------------------------------------------------------------------
(* Product breakdown: the flat product map and the per-bucket product map *)

\* product identity of a line in the product fold
LineIdentity(li, itemsIndex, itemsNameIndex) ==
  LET itemCode == OrStr(li.itemCode, li.ItemCode)
      description == OrStr(li.description, li.Description)
      rawCode == toUpperCase(itemCode)
      pid0 == OrStr(rawCode, OrStr(description, "unknown"))
      hasInfo == rawCode # "" /\ MapHas(itemsIndex, rawCode)
      itemInfo == MapGet(itemsIndex, rawCode, NoItem)
      title0 == OrStr(IF hasInfo THEN itemInfo.name ELSE "",
                      OrStr(description, OrStr(itemCode, "Item")))
      normDesc == normalizeText(description)
      hasHit == ~hasInfo /\ normDesc # "" /\ MapHas(itemsNameIndex, normDesc)
      nameHit == MapGet(itemsNameIndex, normDesc, NoItem)
      title1 == OrStr(nameHit.name, title0)
  IN IF hasHit
     THEN [pid |-> OrStr(nameHit.code, title1), title |-> title1, match |-> "heuristic"]
     ELSE [pid |-> pid0, title |-> title0,
           match |-> IF hasInfo THEN "code" ELSE "none"]

\* product identity of a document without lines in the product fold
FallbackIdentity(inv, itemsIndex, itemsNameIndex) ==
  LET reference == inv.reference
      normalizedRef == normalizeText(reference)
      title0 == OrStr(reference,
                      InvoiceTitle(OrStr(inv.invoiceNumber,
                                         OrStr(inv.invoiceID, "undefined"))))
      upperRef == toUpperCase(reference)
      hasInfo == reference # "" /\ MapHas(itemsIndex, upperRef)
      itemInfo == MapGet(itemsIndex, upperRef, NoItem)
      hasHit == reference # "" /\ ~hasInfo /\ normalizedRef # ""
                /\ MapHas(itemsNameIndex, normalizedRef)
      nameHit == MapGet(itemsNameIndex, normalizedRef, NoItem)
      title1 == OrStr(nameHit.name, title0)
  IN IF hasInfo
     THEN [pid |-> upperRef, title |-> OrStr(itemInfo.name, title0), match |-> "code"]
     ELSE IF hasHit
     THEN [pid |-> OrStr(nameHit.code, title1), title |-> title1, match |-> "heuristic"]
     ELSE [pid |-> reference, title |-> title0, match |-> "none"]

\* quantity / amounts of a line under either capitalisation
liQuantity(li) == OrNum(li.quantity, li.Quantity)

liLineAmount(li) == OrNum(li.lineAmount, li.LineAmount)

liUnitAmount(li) == OrNum(li.unitAmount, li.UnitAmount)

liTaxAmount(li) == OrNum(li.taxAmount, li.TaxAmount)

hasAmountAny(li) == Has(liLineAmount(li)) \/ Has(liUnitAmount(li))

\* liQty = sign * Number(q ?? 0)
LineQty(inv, li) == Sign(inv) * EffQty(liQuantity(li), hasAmountAny(li))

\* liSales = sign * (Number(chosenAmt || 0) - Number(taxAmount ?? 0))
LineSales(inv, li) ==
  Sign(inv) * ((IF Has(liLineAmount(li)) THEN liLineAmount(li)[1]
                ELSE NumOr0(liUnitAmount(li)) * NumOr0(liQuantity(li)))
               - NumOr0(liTaxAmount(li)))

\* liSales of the invoice-as-product fallback
FallbackSales(inv) == Sign(inv) * (NumOr0(inv.total) - NumOr0(inv.totalTax))

\* an update that overwrites the product's sums instead of adding to them
AddProductLastWins(m, pid, title, q, s) ==
  MapSet(m, pid, [title |-> title, qty |-> q, sales |-> s])

\* agg = m.get(pid) || {title, qty: 0, sales: 0}; agg.qty += q; agg.sales += s
AddProduct(m, pid, title, q, s) ==
  LET agg == MapGet(m, pid, [title |-> title, qty |-> 0, sales |-> 0])
  IN MapSet(m, pid, [title |-> agg.title, qty |-> agg.qty + q, sales |-> agg.sales + s])

\* the same contribution into the flat map and into the bucket's map
AddToProductMaps(acc, key, id, q, s) ==
  [acc EXCEPT
     !.productMap = AddProduct(acc.productMap, id.pid, id.title, q, s),
     !.seriesProductMap =
        MapSet(acc.seriesProductMap, key,
               AddProduct(MapGet(acc.seriesProductMap, key, <<>>),
                          id.pid, id.title, q, s)),
     !.productItemMatches =
        acc.productItemMatches + (IF id.match = "code" THEN 1 ELSE 0),
     !.productHeuristicMatches =
        acc.productHeuristicMatches + (IF id.match = "heuristic" THEN 1 ELSE 0)]

ProductStep(acc, inv, granularity, now, itemsIndex, itemsNameIndex) ==
  LET key == bucketKey(docDay(inv, now), granularity)
      acc0 == [acc EXCEPT !.seriesProductMap =
                 IF MapHas(acc.seriesProductMap, key) THEN acc.seriesProductMap
                 ELSE MapSet(acc.seriesProductMap, key, <<>>)]
      lineItems == docItems(inv)
  IN IF Len(lineItems) > 0
     THEN FoldSeq(LAMBDA a, li :
            [AddToProductMaps(a, key, LineIdentity(li, itemsIndex, itemsNameIndex),
                              LineQty(inv, li), LineSales(inv, li))
               EXCEPT !.inferredQtyLines =
                 a.inferredQtyLines
                 + (IF InfersQty(liQuantity(li), hasAmountAny(li)) THEN 1 ELSE 0)],
            acc0, lineItems)
     ELSE [AddToProductMaps(acc0, key,
                            FallbackIdentity(inv, itemsIndex, itemsNameIndex),
                            Sign(inv) * 1, FallbackSales(inv))
             EXCEPT !.inferredQtyLines = acc0.inferredQtyLines + 1]

ProductFold(invoices, granularity, now, itemsIndex, itemsNameIndex, inferred0) ==
  FoldSeq(LAMBDA acc, inv :
            ProductStep(acc, inv, granularity, now, itemsIndex, itemsNameIndex),
          [productMap |-> <<>>, seriesProductMap |-> <<>>,
           inferredQtyLines |-> inferred0,
           productItemMatches |-> 0, productHeuristicMatches |-> 0],
          invoices)

----------------------------------------------------------------------------
(* Monthly per-product matrix *)

\* product identity of a line in the monthly matrix
MonthlyLineIdentity(li, itemsIndex, itemsNameIndex) ==
  LET rawCode == toUpperCase(li.itemCode)
      pid0 == OrStr(rawCode, OrStr(li.description, "unknown"))
      title0 == OrStr(IF rawCode # "" THEN MapGet(itemsIndex, rawCode, NoItem).name
                      ELSE "",
                      OrStr(li.description, OrStr(li.itemCode, "Item")))
      norm == normalizeText(li.description)
      hasHit == rawCode = "" /\ li.description # "" /\ norm # ""
                /\ MapHas(itemsNameIndex, norm)
      hit == MapGet(itemsNameIndex, norm, NoItem)
      title1 == OrStr(hit.name, title0)
  IN IF hasHit THEN [pid |-> OrStr(hit.code, title1), title |-> title1]
     ELSE [pid |-> pid0, title |-> title0]

\* product identity of a document without lines in the monthly matrix
MonthlyFallbackIdentity(inv, itemsIndex, itemsNameIndex) ==
  LET reference == inv.reference
      normalizedRef == normalizeText(reference)
      pid0 == OrStr(reference,
                    OrStr(inv.invoiceNumber, OrStr(inv.invoiceID, "invoice")))
      title0 == OrStr(reference,
                      InvoiceTitle(OrStr(inv.invoiceNumber, inv.invoiceID)))
      upperRef == toUpperCase(reference)
      hasInfo == reference # "" /\ MapHas(itemsIndex, upperRef)
      itemInfo == MapGet(itemsIndex, upperRef, NoItem)
      hasHit == reference # "" /\ ~hasInfo /\ normalizedRef # ""
                /\ MapHas(itemsNameIndex, normalizedRef)
      nameHit == MapGet(itemsNameIndex, normalizedRef, NoItem)
      title1 == OrStr(nameHit.name, title0)
  IN IF hasInfo THEN [pid |-> upperRef, title |-> OrStr(itemInfo.name, title0)]
     ELSE IF hasHit THEN [pid |-> OrStr(nameHit.code, title1), title |-> title1]
     ELSE [pid |-> pid0, title |-> title0]

\* sign * Number(q ?? 0) with the lower-case fields only
MonthlyLineQty(inv, li) == Sign(inv) * EffQty(li.quantity, hasAmountLower(li))

\* sign * Number(amt || 0) with the lower-case fields only
MonthlyLineSales(inv, li) == Sign(inv) * LinePretaxLower(li)

MonthlyProductStep(per0, inv, now, itemsIndex, itemsNameIndex) ==
  LET mk == monthKey(docDay(inv, now))
      per == IF MapHas(per0, mk) THEN per0 ELSE MapSet(per0, mk, <<>>)
      lineItemsMP == docItems(inv)
      Add(m, id, q, s) ==
        MapSet(m, mk, AddProduct(MapGet(m, mk, <<>>), id.pid, id.title, q, s))
  IN IF Len(lineItemsMP) > 0
     THEN FoldSeq(LAMBDA m, li :
            Add(m, MonthlyLineIdentity(li, itemsIndex, itemsNameIndex),
                MonthlyLineQty(inv, li), MonthlyLineSales(inv, li)),
            per, lineItemsMP)
     ELSE Add(per, MonthlyFallbackIdentity(inv, itemsIndex, itemsNameIndex),
              Sign(inv) * 1, FallbackSales(inv))

MonthlyProductFold(invoices, now, itemsIndex, itemsNameIndex) ==
  FoldSeq(LAMBDA m, inv : MonthlyProductStep(m, inv, now, itemsIndex, itemsNameIndex),
          <<>>, invoices)

----------------------------------------------------------------------------
(* Monthly totals *)

\* the month's quantity of a document (itemsM is always an array)
MonthlyQty(inv) == BucketQty(inv)

\* a chosenTotal that is always the sum of the lines
MonthlyTotalLinesOnly(inv) ==
  FoldSeq(LAMBDA s, li : s + Sign(inv) * LinePretaxLower(li), 0, docItems(inv))

\* chosenTotal of the monthly fold
MonthlyTotal(inv) ==
  IF Has(inv.total)
  THEN IF inv.lineAmountTypes # "" /\ toLowerCase(inv.lineAmountTypes) = "inclusive"
       THEN Sign(inv) * (inv.total[1] - taxSum(inv))
       ELSE Sign(inv) * inv.total[1]
  ELSE FoldSeq(LAMBDA s, li : s + Sign(inv) * LinePretaxLower(li), 0, docItems(inv))

MonthlyStep(acc, inv, now) ==
  LET mk == monthKey(docDay(inv, now))
      cur == MapGet(acc.monthlyMap, mk, [qty |-> 0, sales |-> 0])
  IN [monthlyMap |-> MapSet(acc.monthlyMap, mk,
                            [qty |-> cur.qty + MonthlyQty(inv),
                             sales |-> cur.sales + MonthlyTotal(inv)]),
      inferredQtyLines |-> acc.inferredQtyLines + BucketInferred(inv)]

MonthlyFold(invoices, now, inferred0) ==
  FoldSeq(LAMBDA acc, inv : MonthlyStep(acc, inv, now),
          [monthlyMap |-> <<>>, inferredQtyLines |-> inferred0], invoices)

----------------------------------------------------------------------------
(* Range normalisation *)

\* a normalizeRange whose last30 preset ignores the supplied start
normalizeRangeLast30Fixed(filters, utcNow) ==
  LET preset == OrStr(filters.preset, "last30")
      end == IF filters.end.kind # "none" THEN ParseDate(filters.end) ELSE <<utcNow>>
      start ==
        IF preset = "thisMonth" THEN <<startOfMonthUTC(utcNow)>>
        ELSE IF preset = "ytd" THEN <<DaysFromCivil(CivilFromDays(utcNow)[1], 1, 1)>>
        ELSE IF preset = "custom" /\ filters.start.kind # "none" THEN ParseDate(filters.start)
        ELSE <<utcNow - 29>>
  IN [start |-> start, end |-> end,
      granularity |-> OrStr(filters.granularity, "day"), preset |-> preset]

normalizeRange(filters, utcNow) ==
  LET preset == OrStr(filters.preset, "last30")
      end == IF filters.end.kind # "none" THEN ParseDate(filters.end) ELSE <<utcNow>>
      start ==
        IF preset = "thisMonth" THEN <<startOfMonthUTC(utcNow)>>
        ELSE IF preset = "ytd" THEN <<DaysFromCivil(CivilFromDays(utcNow)[1], 1, 1)>>
        ELSE IF filters.start.kind # "none" THEN ParseDate(filters.start)
        ELSE <<utcNow - 29>>
  IN [start |-> start, end |-> end,
      granularity |-> OrStr(filters.granularity, "day"), preset |-> preset]

\* start.toISOString() / end.toISOString() throw RangeError on Invalid Date
RangeLogThrows(range) == range.start = <<>> \/ range.end = <<>>

----------------------------------------------------------------------------
(* The synchronous stretches of getXeroAnalytics *)

\* from the filter to recentInvoices: runs before the catalog fetch
BucketsRecord(fetched, f, b, series, sorted) ==
  [fetched |-> fetched,
   invoices |-> sorted,
   excludedNonSales |-> f.excludedNonSales,
   excludedStatus |-> f.excludedStatus,
   inferredQtyLines |-> b.inferredQtyLines,
   series |-> series,
   totals |-> BuildTotals(series),
   credits |-> [count |-> b.creditCount, qty |-> b.creditQty, sales |-> b.creditSales],
   recentInvoices |-> BuildRecentInvoices(sorted)]

BucketsOfFold(fetched, f, b) ==
  BucketsRecord(fetched, f, b, BuildSeries(b.map), SortInvoices(f.invoices))

BucketsOfFilter(fetched, f, granularity, today) ==
  BucketsOfFold(fetched, f, BucketFold(f.invoices, granularity, today))

AggregateBuckets(fetchedAll, input, range, today) ==
  BucketsOfFilter(Len(fetchedAll),
                  FilterInvoices(fetchedAll, input, range.start, range.end),
                  range.granularity, today)

\* entries of a map of maps, sorted by key
PerKeyOf(sorted) ==
  [i \in 1..Len(sorted) |-> [key |-> sorted[i].k, per |-> sorted[i].v]]

BuildPerKey(m) == PerKeyOf(SortedByKey(m))

BuildSalesByProduct(productMap) ==
  SortBy(LAMBDA a, b : a.sales > b.sales,
         [i \in 1..Len(productMap) |->
            [id |-> productMap[i].k, title |-> productMap[i].v.title,
             qty |-> productMap[i].v.qty, sales |-> productMap[i].v.sales]])

BuildTopByQty(productMap) ==
  SortBy(LAMBDA a, b : a.qty > b.qty,
         [i \in 1..Len(productMap) |->
            [id |-> productMap[i].k, title |-> productMap[i].v.title,
             qty |-> productMap[i].v.qty]])

TopN == 10

FirstN(s, n) == SubSeq(s, 1, IF Len(s) < n THEN Len(s) ELSE n)

\* a mom that keeps only the pairs of calendar-consecutive months
BuildMomAdjacentOnly(sortedMonths) ==
  SelectSeq([i \in 1..(IF Len(sortedMonths) = 0 THEN 0 ELSE Len(sortedMonths) - 1) |->
               [period |-> <<sortedMonths[i].k, sortedMonths[i + 1].k>>,
                prev |-> sortedMonths[i].v, curr |-> sortedMonths[i + 1].v]],
            LAMBDA e : e.period[2][1] * 12 + e.period[2][2]
                       = e.period[1][1] * 12 + e.period[1][2] + 1)

BuildMom(sortedMonths) ==
  [i \in 1..(IF Len(sortedMonths) = 0 THEN 0 ELSE Len(sortedMonths) - 1) |->
     [period |-> <<sortedMonths[i].k, sortedMonths[i + 1].k>>,
      prev |-> sortedMonths[i].v, curr |-> sortedMonths[i + 1].v]]

\* a yoy that drops the months whose previous-year month is absent
BuildYoyDropsMissing(monthlyMap, sortedMonths) ==
  [i \in 1..Len(SelectSeq(sortedMonths,
                          LAMBDA e : MapHas(monthlyMap, <<e.k[1] - 1, e.k[2]>>))) |->
     [month |-> SelectSeq(sortedMonths,
                          LAMBDA e : MapHas(monthlyMap, <<e.k[1] - 1, e.k[2]>>))[i].k,
      curr |-> SelectSeq(sortedMonths,
                         LAMBDA e : MapHas(monthlyMap, <<e.k[1] - 1, e.k[2]>>))[i].v,
      prev |-> MapGet(monthlyMap,
                      <<SelectSeq(sortedMonths,
                                  LAMBDA e : MapHas(monthlyMap, <<e.k[1] - 1, e.k[2]>>))[i].k[1] - 1,
                        SelectSeq(sortedMonths,
                                  LAMBDA e : MapHas(monthlyMap, <<e.k[1] - 1, e.k[2]>>))[i].k[2]>>,
                      [qty |-> 0, sales |-> 0])]]

BuildYoy(monthlyMap, sortedMonths) ==
  [i \in 1..Len(sortedMonths) |->
     [month |-> sortedMonths[i].k,
      curr |-> sortedMonths[i].v,
      prev |-> MapGet(monthlyMap, <<sortedMonths[i].k[1] - 1, sortedMonths[i].k[2]>>,
                      [qty |-> 0, sales |-> 0])]]

ResultRecord(p1, allItems, range, pf, mp, mf, sortedMonths, salesByProduct) ==
  [filters |-> [preset |-> range.preset, start |-> fmtYMD(range.start[1]),
                end |-> fmtYMD(range.end[1]), granularity |-> range.granularity],
   totals |-> p1.totals,
   series |-> p1.series,
   recentInvoices |-> p1.recentInvoices,
   topItems |-> allItems,
   productLegend |->
     [i \in 1..Len(pf.productMap) |->
        [id |-> pf.productMap[i].k, title |-> pf.productMap[i].v.title]],
   seriesProduct |-> BuildPerKey(pf.seriesProductMap),
   top10ByQty |-> FirstN(BuildTopByQty(pf.productMap), TopN),
   top10BySales |-> FirstN(salesByProduct, TopN),
   salesByProduct |-> salesByProduct,
   mom |-> BuildMom(sortedMonths),
   yoy |-> BuildYoy(mf.monthlyMap, sortedMonths),
   diagnostics |->
     [fetched |-> p1.fetched, included |-> Len(p1.invoices),
      excludedNonSales |-> p1.excludedNonSales,
      excludedStatus |-> p1.excludedStatus,
      inferredQtyLines |-> mf.inferredQtyLines,
      productCodeMatches |-> pf.productItemMatches,
      productHeuristicMatches |-> pf.productHeuristicMatches],
   monthlyTotals |->
     [i \in 1..Len(sortedMonths) |->
        [key |-> sortedMonths[i].k, qty |-> sortedMonths[i].v.qty,
         sales |-> sortedMonths[i].v.sales]],
   monthlyDict |->
     [i \in 1..Len(sortedMonths) |->
        [k |-> sortedMonths[i].k,
         v |-> [qty |-> sortedMonths[i].v.qty, sales |-> sortedMonths[i].v.sales]]],
   credits |-> p1.credits,
   monthlyProduct |-> BuildPerKey(mp)]

ResultOfFolds(p1, allItems, range, pf, mp, mf) ==
  ResultRecord(p1, allItems, range, pf, mp, mf, SortedByKey(mf.monthlyMap),
               BuildSalesByProduct(pf.productMap))

ResultOfProducts(p1, allItems, range, today, itemsIndex, itemsNameIndex, pf) ==
  ResultOfFolds(p1, allItems, range, pf,
                MonthlyProductFold(p1.invoices, today, itemsIndex, itemsNameIndex),
                MonthlyFold(p1.invoices, today, pf.inferredQtyLines))

ResultOfIndexes(p1, allItems, range, today, itemsIndex, itemsNameIndex) ==
  ResultOfProducts(p1, allItems, range, today, itemsIndex, itemsNameIndex,
                   ProductFold(p1.invoices, range.granularity, today,
                               itemsIndex, itemsNameIndex, p1.inferredQtyLines))

ResultOfItemsIndex(p1, allItems, range, today, itemsIndex) ==
  ResultOfIndexes(p1, allItems, range, today, itemsIndex,
                  BuildItemsNameIndex(itemsIndex))

\* from the catalog indexes to the returned object; allItems is <<>> when the
\* catalog fetch failed (the catch around it swallows the error)
AggregateProducts(p1, allItems, range, today) ==
  ResultOfItemsIndex(p1, allItems, range, today, BuildItemsIndex(allItems))

----------------------------------------------------------------------------
(* The documents, catalogs and filters the provider and the caller may supply *)

\* a line item as the SDK delivers it: camelCase fields, or PascalCase fields
CamelLine(code, desc, qty, lineAmt, unitAmt, taxAmt) ==
  [itemCode |-> code, description |-> desc, quantity |-> qty,
   lineAmount |-> lineAmt, unitAmount |-> unitAmt, taxAmount |-> taxAmt,
   ItemCode |-> "", Description |-> "", Quantity |-> <<>>,
   LineAmount |-> <<>>, UnitAmount |-> <<>>, TaxAmount |-> <<>>]

PascalLine(code, desc, qty, lineAmt, unitAmt, taxAmt) ==
  [itemCode |-> "", description |-> "", quantity |-> <<>>,
   lineAmount |-> <<>>, unitAmount |-> <<>>, taxAmount |-> <<>>,
   ItemCode |-> code, Description |-> desc, Quantity |-> qty,
   LineAmount |-> lineAmt, UnitAmount |-> unitAmt, TaxAmount |-> taxAmt]

\* a document with camelCase fields
CamelDoc(type, status, date, total, totalTax, lat, lines, reference, number) ==
  [type |-> type, status |-> status, date |-> date, lineItems |-> lines,
   Type |-> "", Status |-> "", Date |-> NoDateStr, LineItems |-> <<>>,
   total |-> total, totalTax |-> totalTax, lineAmountTypes |-> lat,
   reference |-> reference, invoiceNumber |-> number,
   invoiceID |-> "", InvoiceID |-> "", casing |-> "camel"]

\* a document with PascalCase fields: the camelCase fields the engine reads
\* without an alternative (total, totalTax, reference, ...) are undefined
PascalDoc(type, status, date, lines) ==
  [type |-> "", status |-> "", date |-> NoDateStr, lineItems |-> <<>>,
   Type |-> type, Status |-> status, Date |-> date, LineItems |-> lines,
   total |-> <<>>, totalTax |-> <<>>, lineAmountTypes |-> "",
   reference |-> "", invoiceNumber |-> "",
   invoiceID |-> "", InvoiceID |-> "", casing |-> "Pascal"]

LineA == CamelLine("w1", "Widget A", <<2>>, <<>>, <<10>>, <<2>>)

LineB == CamelLine("", "widget-a", <<>>, <<10>>, <<>>, <<>>)

LineC == CamelLine("x9", "Widget A", <<1>>, <<10>>, <<>>, <<2>>)

LineD == CamelLine("", "Gadget", <<3>>, <<30>>, <<>>, <<>>)

DayIn == YMD(2024, 6, 10)

DayPrevMonth == YMD(2024, 5, 20)

DayPrevYear == YMD(2023, 6, 12)

DocUniverse ==
  { CamelDoc("ACCREC", "AUTHORISED", DayIn, <<>>, <<>>, "Exclusive", <<LineA>>, "", "INV-7"),
    CamelDoc("ACCRECCREDIT", "AUTHORISED", DayIn, <<>>, <<>>, "Exclusive", <<LineA>>, "", ""),
    CamelDoc("ACCREC", "AUTHORISED", DayIn, <<100>>, <<10>>, "", <<>>, "", "INV-7"),
    CamelDoc("ACCREC", "AUTHORISED", DayIn, <<12>>, <<2>>, "Exclusive", <<LineC>>, "", ""),
    CamelDoc("ACCREC", "AUTHORISED", DayPrevMonth, <<10>>, <<>>, "Inclusive", <<LineB>>, "", ""),
    CamelDoc("ACCREC", "VOIDED", DayIn, <<10>>, <<>>, "", <<>>, "", ""),
    CamelDoc("ACCPAY", "AUTHORISED", DayIn, <<10>>, <<>>, "", <<>>, "PO-7", ""),
    CamelDoc("ACCPAY", "VOIDED", DayIn, <<10>>, <<>>, "", <<>>, "", ""),
    CamelDoc("ACCPAYCREDIT", "AUTHORISED", DayIn, <<10>>, <<>>, "", <<>>, "", ""),
    CamelDoc("", "AUTHORISED", DayIn, <<10>>, <<>>, "", <<>>, "", ""),
    PascalDoc("ACCPAY", "AUTHORISED", DayIn,
              <<PascalLine("", "Gadget", <<3>>, <<30>>, <<>>, <<>>)>>),
    PascalDoc("ACCRECCREDIT", "AUTHORISED", DayIn,
              <<PascalLine("w1", "Widget A", <<2>>, <<>>, <<10>>, <<2>>)>>),
    CamelDoc("accrec", "paid", DayPrevYear, <<>>, <<>>, "", <<LineD>>, "", ""),
    CamelDoc("ACCREC", "VOIDED", NoDateStr, <<10>>, <<>>, "", <<>>, "", ""),
    CamelDoc("ACCREC", "AUTHORISED", DayPrevMonth, <<20>>, <<0>>, "", <<>>, "w1", ""),
    CamelDoc("ACCREC", "", DayIn, <<>>, <<>>, "NoTax", <<LineA, LineB>>, "", ""),
    CamelDoc("ACCREC", "AUTHORISED", DayIn, <<>>, <<>>, "", <<>>, "", "INV-7") }

Item(code, name) == [code |-> code, name |-> name]

Catalogs == { <<>>, <<Item("W1", "Widget A")>> }

Filters(preset, start, end, granularity, includePurchases, chunk) ==
  [preset |-> preset, start |-> start, end |-> end, granularity |-> granularity,
   includePurchases |-> includePurchases, chunk |-> chunk]

DefaultInput == Filters("", NoDateStr, NoDateStr, "", FALSE, <<>>)

Inputs ==
  { DefaultInput,
    Filters("custom", YMD(2023, 1, 1), NoDateStr, "month", TRUE, <<>>),
    Filters("custom", BadDateStr, NoDateStr, "", FALSE, <<>>),
    Filters("ytd", NoDateStr, NoDateStr, "week", FALSE, <<1>>) }

Todays == { DaysFromCivil(2024, 6, 15) }

\* sequences over S of length at most n
SeqsUpTo(S, n) == UNION { [1..k -> S] : k \in 0..n }

\* InvoiceID, as the provider assigns it
IdOf(i) ==
  CASE i = 1 -> "id1" [] i = 2 -> "id2" [] i = 3 -> "id3" [] i = 4 -> "id4"
    [] OTHER -> "id*"

\* the provider's documents: each carries its InvoiceID in its own casing
WithIds(docs) ==
  [i \in 1..Len(docs) |->
     IF docs[i].casing = "camel" THEN [docs[i] EXCEPT !.invoiceID = IdOf(i)]
     ELSE [docs[i] EXCEPT !.InvoiceID = IdOf(i)]]

----------------------------------------------------------------------------
(* State *)

VARIABLES
  now,           \* the current UTC day (new Date())
  cookieMode,    \* isCookieMode(): the session lives in the cookie, not in a file
  sessions,      \* request -> the session its cookies lead to (tenantId 0: null)
  xeroTokenSet,  \* the token set held by the module-level SDK client `xero`
  tenantDocs,    \* tenant -> the documents the provider holds
  tenantItems,   \* tenant -> the catalog items the provider holds
  req,           \* request -> the locals of its getXeroAnalytics call
  calls,         \* history: the provider calls issued
  rwrLog,        \* history: the completed requestWithRetry executions
  faults,        \* provider / refresh failures that may still occur
  cash,          \* the locals of one GET /api/debug/cash-weighted-items
  buffer,        \* webhookStore: the module-level event buffer
  recent         \* the last getRecentWebhookEvents: its limit and its value; history:
                 \* the number of events added so far

vars == <<now, cookieMode, sessions, xeroTokenSet, tenantDocs, tenantItems,
          req, calls, rwrLog, faults, cash, buffer, recent>>

\* the variables of getXeroAnalytics and of the session store
analyticsVars == <<now, cookieMode, sessions, xeroTokenSet, tenantDocs, tenantItems,
                   req, calls, rwrLog, faults>>

\* the variables of the two other routes
auxVars == <<cash, buffer, recent>>

Requests == {1, 2}

NoToken == [owner |-> 0, gen |-> 0]

NoSession == [tokenSet |-> NoToken, tenantId |-> 0]

\* the session of request r: its own tenant and its own token set
SessionOf(r) == [tokenSet |-> [owner |-> r, gen |-> 0], tenantId |-> r]

\* errors thrown by the SDK: response.statusCode and response.body.Title
NoErr == [status |-> 0, title |-> ""]

Err401 == [status |-> 401, title |-> ""]

ErrTitle == [status |-> 403, title |-> "Unauthorized"]

Err500 == [status |-> 500, title |-> ""]

ProviderErrors == {Err401, ErrTitle, Err500}

\* status === 401 || String(Title || '').toLowerCase().includes('unauthorized')
unauthorized(err) == err.status = 401 \/ toLowerCase(err.title) = "unauthorized"

\* page size of the provider's paginated invoice listing
PageSize == 2

\* page p (from 1) of the tenant's documents
ProviderPage(docs, p) ==
  SubSeq(docs, (p - 1) * PageSize + 1,
         IF p * PageSize < Len(docs) THEN p * PageSize ELSE Len(docs))

\* getId: inv?.InvoiceID || inv?.invoiceID
getId(inv) == OrStr(inv.InvoiceID, inv.invoiceID)

\* the provider's answer to getInvoices(iDs = c)
ProviderByIds(docs, c) ==
  SelectSeq(docs, LAMBDA d : \E j \in 1..Len(c) : c[j] = getId(d))

\* Math.max(1, Math.min(Number(input.chunk ?? 40), 40))
HydrateChunkCap == 40

\* Number('abc'): NaN, an optional number that is present and is no integer
NaNNumber == <<0, 0>>

\* Math.min and Math.max return NaN when an argument is NaN; 0 stands for the
\* chunk size NaN, which no other input yields
chunkSize(input) ==
  LET n == IF Has(input.chunk) THEN input.chunk[1] ELSE HydrateChunkCap
      m == IF n < HydrateChunkCap THEN n ELSE HydrateChunkCap
  IN IF input.chunk = NaNNumber THEN 0
     ELSE IF m > 1 THEN m ELSE 1

\* headers.map(getId).filter(Boolean)
HeaderIds(headers) ==
  LET ids == [i \in 1..Len(headers) |-> getId(headers[i])]
  IN SelectSeq(ids, LAMBDA x : x # "")

\* ids.slice(i, i + chunkSize) for i = 0, chunkSize, ...; with the size NaN the
\* loop runs once, pushes ids.slice(0, NaN) = [] and ends on i = NaN
ChunkIds(ids, size) ==
  IF size = 0 THEN (IF Len(ids) > 0 THEN << <<>> >> ELSE <<>>)
  ELSE [k \in 1..((Len(ids) + size - 1) \div size) |->
          SubSeq(ids, (k - 1) * size + 1,
                 IF k * size < Len(ids) THEN k * size ELSE Len(ids))]

\* headers.map(h => byId.get(getId(h)) || h); byId keeps the last hydrated
\* document of each id
MergeHydrated(headers, hydrated) ==
  LET byId == FoldSeq(LAMBDA m, x : MapSet(m, getId(x), x), <<>>, hydrated)
  IN [i \in 1..Len(headers) |-> MapGet(byId, getId(headers[i]), headers[i])]

IdleReq(input) ==
  [pc |-> "idle", input |-> input, session |-> NoSession, range |-> <<>>,
   phase |-> "", attempt |-> 0, refreshes |-> 0, firstErr |-> NoErr,
   callToken |-> NoToken, ts |-> NoToken,
   page |-> 0, headers |-> <<>>, chunks |-> <<>>, chunkIdx |-> 0,
   hydrated |-> <<>>, fetchedAll |-> <<>>, p1 |-> <<>>,
   itemsFailed |-> FALSE, result |-> <<>>, error |-> ""]

OffReq == [IdleReq(DefaultInput) EXCEPT !.pc = "off"]

----------------------------------------------------------------------------
(* requestWithRetry and the provider calls *)

\* the call in flight, as the provider sees it: fn() sends session.tenantId
\* with the token set the shared client holds when fn() runs
CallRec(r, rq) ==
  [req |-> r, phase |-> rq.phase, attempt |-> rq.attempt, page |-> rq.page,
   chunk |-> rq.chunkIdx, tenantId |-> rq.session.tenantId, token |-> rq.callToken]

\* requestWithRetry(fn) is entered: first invocation of fn
BeginCall(rq, phase, token) ==
  [rq EXCEPT !.pc = "await", !.phase = phase, !.attempt = 1, !.refreshes = 0,
             !.firstErr = NoErr, !.callToken = token]

\* "Retry once after refresh attempt": second invocation of fn
RetryCall(rq, token) ==
  [rq EXCEPT !.pc = "await", !.attempt = 2, !.callToken = token]

\* what the provider may answer: NoErr is a successful response. A call whose
\* token set does not belong to the tenant it names is rejected.
Outcomes(rq) ==
  IF rq.callToken.owner # rq.session.tenantId THEN ProviderErrors
  ELSE {NoErr} \cup (IF faults > 0 THEN ProviderErrors ELSE {})

Spent(rq, o) ==
  IF o # NoErr /\ rq.callToken.owner = rq.session.tenantId THEN 1 ELSE 0

\* a catch that refreshes and retries after any first failure
GoesToRefreshOnAnyError(rq, o) == o # NoErr /\ rq.attempt = 1

\* the catch of requestWithRetry refreshes and retries
GoesToRefresh(rq, o) == o # NoErr /\ rq.attempt = 1 /\ unauthorized(o)

\* requestWithRetry throws o: `throw e`, or the retry's rejection
Throws(rq, o) == o # NoErr /\ ~GoesToRefresh(rq, o)

ToRefresh(rq, o) == [rq EXCEPT !.pc = "refresh", !.firstErr = o]

RwrRec(r, rq, o) ==
  [req |-> r, phase |-> rq.phase, page |-> rq.page, chunk |-> rq.chunkIdx,
   invocations |-> rq.attempt, refreshes |-> rq.refreshes,
   firstErr |-> rq.firstErr, thrown |-> o]

\* a stretch whose inferredQtyLines counter is not local to the call: it starts
\* from the number of calls that have already returned
EnterItemsSharedCounter(rq, fetchedAll, token) ==
  BeginCall([rq EXCEPT
               !.fetchedAll = fetchedAll,
               !.p1 = [AggregateBuckets(fetchedAll, rq.input, rq.range, now) EXCEPT
                         !.inferredQtyLines =
                            @ + Cardinality({r \in DOMAIN req : req[r].pc = "done"})]],
            "items", token)

\* the synchronous stretch that ends by issuing the catalog fetch
EnterItems(rq, fetchedAll, token) ==
  BeginCall([rq EXCEPT !.fetchedAll = fetchedAll,
                       !.p1 = AggregateBuckets(fetchedAll, rq.input, rq.range, now)],
            "items", token)

\* after the last header page: hydrate by IDs when there are headers
AfterHeaders(rq, token) ==
  LET chunks == ChunkIds(HeaderIds(rq.headers), chunkSize(rq.input))
  IN IF Len(rq.headers) > 0 /\ Len(chunks) > 0
     THEN BeginCall([rq EXCEPT !.chunks = chunks, !.chunkIdx = 1], "hydrate", token)
     ELSE EnterItems(rq, rq.headers, token)

Fail(rq, msg) == [rq EXCEPT !.pc = "failed", !.error = msg]

ErrText(o) ==
  CASE o = Err401 -> "401" [] o = ErrTitle -> "403 Unauthorized" [] OTHER -> "500"

----------------------------------------------------------------------------
(* getXeroAnalytics, one action per stretch between two awaits *)

\* a session check that lets a null session through
HasSessionAlways(session) == TRUE

\* if (!session) throw new Error('No Xero session')
HasSession(session) == session.tenantId # 0

\* getXeroSession resolves; no session throws; else setTokenSet on the shared
\* client, normalizeRange, the range log line, and the first header page call
Start(r) ==
  /\ req[r].pc = "idle"
  /\ LET session == sessions[r]
         range == normalizeRange(req[r].input, now)
         rq == BeginCall([req[r] EXCEPT !.session = session, !.range = range,
                                        !.page = 1],
                         "headers", session.tokenSet)
     IN IF ~HasSession(session)
        THEN /\ req' = [req EXCEPT ![r] = Fail(req[r], "No Xero session")]
             /\ UNCHANGED <<xeroTokenSet, calls>>
        ELSE /\ xeroTokenSet' = session.tokenSet
             /\ IF RangeLogThrows(range)
                THEN /\ req' = [req EXCEPT ![r] =
                                  Fail([req[r] EXCEPT !.session = session],
                                       "RangeError: Invalid time value")]
                     /\ UNCHANGED calls
                ELSE /\ req' = [req EXCEPT ![r] = rq]
                     /\ calls' = calls \cup {CallRec(r, req'[r])}
  /\ UNCHANGED <<now, cookieMode, sessions, tenantDocs, tenantItems, rwrLog, faults>>
  /\ UNCHANGED auxVars

\* a header page call settles
HeadersResponse(r) ==
  /\ req[r].pc = "await" /\ req[r].phase = "headers"
  /\ \E o \in Outcomes(req[r]) :
       LET rq == req[r]
           list == ProviderPage(tenantDocs[rq.session.tenantId], rq.page)
           next == IF list = <<>> THEN AfterHeaders(rq, xeroTokenSet)
                   ELSE [rq EXCEPT !.pc = "sleep", !.headers = rq.headers \o list,
                                   !.page = rq.page + 1]
       IN /\ faults' = faults - Spent(rq, o)
          /\ IF GoesToRefresh(rq, o)
             THEN /\ req' = [req EXCEPT ![r] = ToRefresh(rq, o)]
                  /\ UNCHANGED <<calls, rwrLog>>
             ELSE /\ rwrLog' = rwrLog \cup {RwrRec(r, rq, o)}
                  /\ IF Throws(rq, o)
                     THEN /\ req' = [req EXCEPT ![r] = Fail(rq, ErrText(o))]
                          /\ UNCHANGED calls
                     ELSE /\ req' = [req EXCEPT ![r] = next]
                          /\ calls' = IF req'[r].pc = "await"
                                      THEN calls \cup {CallRec(r, req'[r])} ELSE calls
  /\ UNCHANGED <<now, cookieMode, sessions, xeroTokenSet, tenantDocs, tenantItems>>
  /\ UNCHANGED auxVars

\* sleep(1100) after a non-empty header page is over: the next page call
HeaderNextPage(r) ==
  /\ req[r].pc = "sleep" /\ req[r].phase = "headers"
  /\ LET rq == BeginCall(req[r], "headers", xeroTokenSet)
     IN /\ req' = [req EXCEPT ![r] = rq]
        /\ calls' = calls \cup {CallRec(r, rq)}
  /\ UNCHANGED <<now, cookieMode, sessions, xeroTokenSet, tenantDocs, tenantItems,
                 rwrLog, faults>>
  /\ UNCHANGED auxVars

\* a hydrate-by-IDs call settles
HydrateResponse(r) ==
  /\ req[r].pc = "await" /\ req[r].phase = "hydrate"
  /\ \E o \in Outcomes(req[r]) :
       LET rq == req[r]
           n == ProviderByIds(tenantDocs[rq.session.tenantId], rq.chunks[rq.chunkIdx])
       IN /\ faults' = faults - Spent(rq, o)
          /\ IF GoesToRefresh(rq, o)
             THEN /\ req' = [req EXCEPT ![r] = ToRefresh(rq, o)]
                  /\ UNCHANGED rwrLog
             ELSE /\ rwrLog' = rwrLog \cup {RwrRec(r, rq, o)}
                  /\ IF Throws(rq, o)
                     THEN req' = [req EXCEPT ![r] = Fail(rq, ErrText(o))]
                     ELSE req' = [req EXCEPT ![r] =
                                    [rq EXCEPT !.pc = "sleep",
                                               !.hydrated = rq.hydrated \o n]]
  /\ UNCHANGED <<now, cookieMode, sessions, xeroTokenSet, tenantDocs, tenantItems,
                 calls>>
  /\ UNCHANGED auxVars

\* sleep(1100) after a hydrate call is over: the next chunk, or the merge, the
\* filter and bucket fold, and the catalog call
HydrateNext(r) ==
  /\ req[r].pc = "sleep" /\ req[r].phase = "hydrate"
  /\ LET rq == req[r]
         next == IF rq.chunkIdx < Len(rq.chunks)
                 THEN BeginCall([rq EXCEPT !.chunkIdx = rq.chunkIdx + 1],
                                "hydrate", xeroTokenSet)
                 ELSE EnterItems(rq, MergeHydrated(rq.headers, rq.hydrated),
                                 xeroTokenSet)
     IN /\ req' = [req EXCEPT ![r] = next]
        /\ calls' = calls \cup {CallRec(r, req'[r])}
  /\ UNCHANGED <<now, cookieMode, sessions, xeroTokenSet, tenantDocs, tenantItems,
                 rwrLog, faults>>
  /\ UNCHANGED auxVars

\* the catalog call settles; a thrown error is swallowed by `catch {}` and the
\* product folds run on an empty catalog
ItemsResponse(r) ==
  /\ req[r].pc = "await" /\ req[r].phase = "items"
  /\ \E o \in Outcomes(req[r]) :
       LET rq == req[r]
           allItems == IF o = NoErr THEN tenantItems[rq.session.tenantId] ELSE <<>>
       IN /\ faults' = faults - Spent(rq, o)
          /\ IF GoesToRefresh(rq, o)
             THEN /\ req' = [req EXCEPT ![r] = ToRefresh(rq, o)]
                  /\ UNCHANGED rwrLog
             ELSE /\ rwrLog' = rwrLog \cup {RwrRec(r, rq, o)}
                  /\ req' = [req EXCEPT ![r] =
                               [rq EXCEPT !.pc = "done",
                                          !.itemsFailed = (o # NoErr),
                                          !.result = AggregateProducts(
                                             rq.p1, allItems, rq.range, now)]]
  /\ UNCHANGED <<now, cookieMode, sessions, xeroTokenSet, tenantDocs, tenantItems,
                 calls>>
  /\ UNCHANGED auxVars

\* xero.refreshToken() settles: on success the client holds a fresh token set and
\* updateCurrentSessionTokenSet is awaited; on failure `catch {}` and the retry
RefreshDone(r) ==
  /\ req[r].pc = "refresh"
  /\ \E ok \in (IF faults > 0 THEN BOOLEAN ELSE {TRUE}) :
       LET rq == [req[r] EXCEPT !.refreshes = req[r].refreshes + 1]
           fresh == [xeroTokenSet EXCEPT !.gen = xeroTokenSet.gen + 1]
           retry == RetryCall(rq, xeroTokenSet)
       IN IF ok
          THEN /\ xeroTokenSet' = fresh
               /\ req' = [req EXCEPT ![r] = [rq EXCEPT !.pc = "persist", !.ts = fresh]]
               /\ UNCHANGED <<calls, faults>>
          ELSE /\ faults' = faults - 1
               /\ req' = [req EXCEPT ![r] = retry]
               /\ calls' = calls \cup {CallRec(r, retry)}
               /\ UNCHANGED xeroTokenSet
  /\ UNCHANGED <<now, cookieMode, sessions, tenantDocs, tenantItems, rwrLog>>
  /\ UNCHANGED auxVars

\* updateCurrentSessionTokenSet never writing the session
PersistDoneNoWrite(r) ==
  /\ req[r].pc = "persist"
  /\ LET retry == RetryCall(req[r], xeroTokenSet)
     IN /\ req' = [req EXCEPT ![r] = retry]
        /\ calls' = calls \cup {CallRec(r, retry)}
  /\ UNCHANGED <<now, cookieMode, sessions, xeroTokenSet, tenantDocs, tenantItems,
                 rwrLog, faults>>
  /\ UNCHANGED auxVars

\* updateCurrentSessionTokenSet(ts) settles (a no-op in cookie mode); the retry
PersistDone(r) ==
  /\ req[r].pc = "persist"
  /\ sessions' = IF cookieMode \/ sessions[r].tenantId = 0 THEN sessions
                 ELSE [sessions EXCEPT ![r].tokenSet = req[r].ts]
  /\ LET retry == RetryCall(req[r], xeroTokenSet)
     IN /\ req' = [req EXCEPT ![r] = retry]
        /\ calls' = calls \cup {CallRec(r, retry)}
  /\ UNCHANGED <<now, cookieMode, xeroTokenSet, tenantDocs, tenantItems, rwrLog, faults>>
  /\ UNCHANGED auxVars

----------------------------------------------------------------------------
(* GET /api/debug/cash-weighted-items *)

\* an invoice line as the provider returns it; Number(x ?? 0) || 0 reads an
\* absent number as 0, so absent numbers are 0 here
CashLine(itemCode, quantity, lineAmount, taxAmount, unitAmount) ==
  [itemCode |-> itemCode, quantity |-> quantity, lineAmount |-> lineAmount,
   taxAmount |-> taxAmount, unitAmount |-> unitAmount]

CashInvoice(id, type, status, lineItems, total, totalTax) ==
  [invoiceID |-> id, type |-> type, status |-> status, lineItems |-> lineItems,
   total |-> total, totalTax |-> totalTax]

\* a payment: date is <<>> when absent, else <<day>>
Payment(date, invoiceID, amount) ==
  [date |-> date, invoiceID |-> invoiceID, amount |-> amount]

\* finalNet of a line: lineAmount - taxAmount, or unit * qty - taxAmount when
\* lineAmount is 0
finalNet(li) ==
  IF li.lineAmount # 0 THEN li.lineAmount - li.taxAmount
  ELSE li.unitAmount * li.quantity - li.taxAmount

\* the lines kept for an invoice, with the pseudo-line of an invoice that has
\* none
CashLinesOf(inv) ==
  LET kept == SelectSeq(inv.lineItems,
                        LAMBDA li : ~(li.itemCode = "" /\ li.quantity = 0 /\ finalNet(li) = 0))
      lines == [i \in 1..Len(kept) |->
                  [itemCode |-> kept[i].itemCode, qty |-> kept[i].quantity,
                   net |-> finalNet(kept[i])]]
  IN IF Len(lines) = 0
     THEN IF inv.total - inv.totalTax # 0
          THEN <<[itemCode |-> "", qty |-> 1, net |-> inv.total - inv.totalTax]>>
          ELSE <<>>
     ELSE lines

\* an invoice is kept in the map: not a draft, not voided, sales side
CashKept(inv) ==
  /\ toUpperCase(inv.status) \notin {"DRAFT", "VOIDED"}
  /\ toUpperCase(inv.type) \in {"ACCREC", "ACCRECCREDIT"}

CashEntry(inv, lines) ==
  [id |-> inv.invoiceID, type |-> toUpperCase(inv.type),
   status |-> toUpperCase(inv.status), lines |-> lines,
   totalNet |-> FoldSeq(LAMBDA acc, l : acc + l.net, 0, lines)]

\* the invoice map: invoices[id] = {...}, a later invoice of the same id wins
CashInvoiceMap(rawInvoices) ==
  FoldSeq(LAMBDA m, inv :
            IF CashKept(inv) THEN MapSet(m, inv.invoiceID, CashEntry(inv, CashLinesOf(inv)))
            ELSE m,
          <<>>, rawInvoices)

\* amounts of the aggregates are kept exactly, in units of 1 / CashScale
CashScale == 18

Abs(x) == IF x < 0 THEN -x ELSE x

\* the payment passes the `continue`s that do not depend on its invoice
CashInWindow(p, start, end) ==
  /\ p.date # <<>>
  /\ start # <<>> => p.date[1] >= start[1]
  /\ end # <<>> => p.date[1] <= end[1]
  /\ p.invoiceID # ""
  /\ p.amount # 0

\* inv.type === 'ACCRECCREDIT' ? -1 : 1
CashSign(entry) == IF entry.type = "ACCRECCREDIT" THEN -1 ELSE 1

\* the payment is apportioned: its invoice is in the map with a non-zero net
CashProcessed(p, invMap, start, end) ==
  /\ CashInWindow(p, start, end)
  /\ MapHas(invMap, p.invoiceID)
  /\ MapGet(invMap, p.invoiceID, <<>>).totalNet # 0

\* `${ymd(pDate)}|${item}` as <<date, item>>
CashKey(p, L) == <<p.date[1], toUpperCase(IF L.itemCode # "" THEN L.itemCode ELSE "UNKNOWN")>>

\* what the forEach adds for the lines, in order: cashQty = qL * weight,
\* cashNet = tL * weight with weight = Ap / |totalNet|
CashLineAdds(p, entry) ==
  [i \in 1..Len(entry.lines) |->
     [key |-> CashKey(p, entry.lines[i]),
      qty |-> (entry.lines[i].qty * CashSign(entry) * p.amount * CashScale)
                \div Abs(entry.totalNet),
      net |-> (entry.lines[i].net * CashSign(entry) * p.amount * CashScale)
                \div Abs(entry.totalNet)]]

\* residual = Ap - sumCashNet, added to the last key when it is not tiny
CashResidualAdd(p, adds) ==
  IF Len(adds) > 0
     /\ p.amount * CashScale - FoldSeq(LAMBDA acc, a : acc + a.net, 0, adds) # 0
  THEN <<[key |-> adds[Len(adds)].key, qty |-> 0,
          net |-> p.amount * CashScale - FoldSeq(LAMBDA acc, a : acc + a.net, 0, adds)]>>
  ELSE <<>>

\* a loop body without the residual reconciliation
CashPaymentAddsNoFix(p, entry) == CashLineAdds(p, entry)

\* everything one processed payment adds to the aggregates
CashPaymentAdds(p, entry) ==
  CashLineAdds(p, entry) \o CashResidualAdd(p, CashLineAdds(p, entry))

CashApply(agg, adds) ==
  FoldSeq(LAMBDA m, a :
            MapSet(m, a.key,
                   [qty |-> MapGet(m, a.key, [qty |-> 0, net |-> 0]).qty + a.qty,
                    net |-> MapGet(m, a.key, [qty |-> 0, net |-> 0]).net + a.net]),
          agg, adds)

\* the loop over the payments
CashAggOf(invMap, payments, start, end) ==
  FoldSeq(LAMBDA agg, p :
            IF CashProcessed(p, invMap, start, end)
            THEN CashApply(agg, CashPaymentAdds(p, MapGet(invMap, p.invoiceID, <<>>)))
            ELSE agg,
          <<>>, payments)

\* Math.round(v * 100) / 100, in cents: halves go up
RoundCents(units) == (2 * units * 100 + CashScale) \div (2 * CashScale)

\* localeCompare on the item codes of the rows; null is ''
ItemRank(item) ==
  CASE item = "UNKNOWN" -> 0 [] item = "W1" -> 1 [] item = "X9" -> 2 [] OTHER -> 3

\* the rows of the response, sorted by date then item code
CashRows(agg) ==
  SortBy(LAMBDA a, b : IF a.date = b.date THEN ItemRank(a.item) < ItemRank(b.item)
                       ELSE a.date < b.date,
         [i \in 1..Len(agg) |->
            [date |-> agg[i].k[1], item |-> agg[i].k[2],
             itemCode |-> IF agg[i].k[2] = "UNKNOWN" THEN "" ELSE agg[i].k[2],
             cash_qty |-> RoundCents(agg[i].v.qty),
             cash_net |-> RoundCents(agg[i].v.net)]])

\* the route is not called
CashOff ==
  [pc |-> "off", session |-> FALSE, start |-> <<>>, end |-> <<>>,
   rawInvoices |-> <<>>, payments |-> <<>>, agg |-> <<>>, rows |-> <<>>, status |-> 0]

\* getXeroSession() returns null: 401
CashNoSession ==
  /\ cash.pc = "idle" /\ ~cash.session
  /\ cash' = [cash EXCEPT !.pc = "done", !.status = 401]
  /\ UNCHANGED <<buffer, recent>>
  /\ UNCHANGED analyticsVars

\* the session is there: getInvoices and getPayments are issued
CashFetch ==
  /\ cash.pc = "idle" /\ cash.session
  /\ cash' = [cash EXCEPT !.pc = "await"]
  /\ UNCHANGED <<buffer, recent>>
  /\ UNCHANGED analyticsVars

\* a fetch rejects: the catch answers with the error
CashFetchFailed ==
  /\ cash.pc = "await"
  /\ cash' = [cash EXCEPT !.pc = "done", !.status = 500]
  /\ UNCHANGED <<buffer, recent>>
  /\ UNCHANGED analyticsVars

\* both fetches resolve: invoice map, apportioning, rows
CashRespond ==
  /\ cash.pc = "await"
  /\ cash' = [cash EXCEPT
               !.pc = "done", !.status = 200,
               !.agg = CashAggOf(CashInvoiceMap(cash.rawInvoices), cash.payments,
                                 cash.start, cash.end),
               !.rows = CashRows(CashAggOf(CashInvoiceMap(cash.rawInvoices),
                                           cash.payments, cash.start, cash.end))]
  /\ UNCHANGED <<buffer, recent>>
  /\ UNCHANGED analyticsVars

----------------------------------------------------------------------------
(* webhookStore: a bounded buffer of recent events *)

\* MAX_EVENTS, 100 in the source, scaled down
MAX_EVENTS == 3

\* buffer.push(e); if (buffer.length > MAX_EVENTS) buffer.shift()
PushEvent(buf, e) ==
  IF Len(buf) + 1 > MAX_EVENTS THEN Tail(Append(buf, e)) ELSE Append(buf, e)

\* the loop of addWebhookEvents
PushAll(buf, events) == FoldSeq(LAMBDA acc, e : PushEvent(acc, e), buf, events)

\* Array.prototype.slice(-limit): a negative begin counts from the end, and
\* -0 is 0, the start of the array
SliceFromEnd(buf, limit) ==
  IF limit = 0 \/ limit >= Len(buf) THEN buf
  ELSE SubSeq(buf, Len(buf) - limit + 1, Len(buf))

Reverse(q) == [i \in 1..Len(q) |-> q[Len(q) + 1 - i]]

\* buffer.slice(-limit).reverse()
RecentOf(buf, limit) == Reverse(SliceFromEnd(buf, limit))

\* no getRecentWebhookEvents call has returned
NoRecent == [limit |-> <<>>, events |-> <<>>, added |-> 0]

\* addWebhookEvents(events): the events are numbered in arrival order
addWebhookEvents(events) ==
  /\ buffer' = PushAll(buffer, events)
  /\ recent' = [recent EXCEPT !.added = recent.added + Len(events)]
  /\ UNCHANGED cash
  /\ UNCHANGED analyticsVars

\* getRecentWebhookEvents(limit)
getRecentWebhookEvents(limit) ==
  /\ recent' = [recent EXCEPT !.limit = <<limit>>, !.events = RecentOf(buffer, limit)]
  /\ UNCHANGED <<cash, buffer>>
  /\ UNCHANGED analyticsVars

\* the other routes are not called
AuxIdle == cash = CashOff /\ buffer = <<>> /\ recent = NoRecent

\* getXeroAnalytics is not called
AnalyticsOff ==
  /\ now \in Todays
  /\ cookieMode = FALSE
  /\ sessions = [r \in Requests |-> NoSession]
  /\ xeroTokenSet = NoToken
  /\ tenantDocs = [t \in Requests |-> <<>>]
  /\ tenantItems = [t \in Requests |-> <<>>]
  /\ req = [r \in Requests |-> OffReq]
  /\ calls = {}
  /\ rwrLog = {}
  /\ faults = 0

----------------------------------------------------------------------------
(* Specifications *)

\* documents per tenant when provider failures are explored
MaxDocsFaulty == 2

\* documents per tenant when the provider is reliable
MaxDocs == 2

\* provider / refresh failures in one behaviour
MaxFaults == 2

\* the documents used while failures and interleavings are explored
SmallUniverse ==
  { CamelDoc("ACCREC", "AUTHORISED", DayIn, <<>>, <<>>, "Exclusive", <<LineA>>, "", "INV-7"),
    CamelDoc("ACCRECCREDIT", "AUTHORISED", DayIn, <<100>>, <<10>>, "", <<>>, "", "") }

\* one request; request 2 is never made
InitOne(docSets, sessionSet, modes, budget) ==
  /\ now \in Todays
  /\ cookieMode \in modes
  /\ \E s \in sessionSet : sessions = [r \in Requests |-> IF r = 1 THEN s ELSE NoSession]
  /\ xeroTokenSet = NoToken
  /\ \E docs \in docSets :
       tenantDocs = [t \in Requests |-> IF t = 1 THEN WithIds(docs) ELSE <<>>]
  /\ \E cat \in Catalogs : tenantItems = [t \in Requests |-> IF t = 1 THEN cat ELSE <<>>]
  /\ \E input \in Inputs :
       req = [r \in Requests |-> IF r = 1 THEN IdleReq(input) ELSE OffReq]
  /\ calls = {}
  /\ rwrLog = {}
  /\ faults = budget
  /\ AuxIdle

Init ==
  InitOne(SeqsUpTo(SmallUniverse, MaxDocsFaulty), {SessionOf(1), NoSession},
          BOOLEAN, MaxFaults)

Next ==
  \E r \in Requests :
    \/ Start(r)
    \/ HeadersResponse(r)
    \/ HeaderNextPage(r)
    \/ HydrateResponse(r)
    \/ HydrateNext(r)
    \/ ItemsResponse(r)
    \/ RefreshDone(r)
    \/ PersistDone(r)

\* one request against a provider that may fail
Spec == Init /\ [][Next]_vars

InitData == InitOne(SeqsUpTo(DocUniverse, MaxDocs), {SessionOf(1)}, {FALSE}, 0)

NextData ==
  \E r \in Requests :
    \/ Start(r)
    \/ HeadersResponse(r)
    \/ HeaderNextPage(r)
    \/ HydrateResponse(r)
    \/ HydrateNext(r)
    \/ ItemsResponse(r)

\* one request against a provider that answers every call: the aggregation
\* over every list of documents of the universe
SpecData == InitData /\ [][NextData]_vars

\* two requests of two sessions on one server process
InitConc ==
  /\ now \in Todays
  /\ cookieMode = FALSE
  /\ sessions = [r \in Requests |-> SessionOf(r)]
  /\ xeroTokenSet = NoToken
  /\ \E d1 \in SeqsUpTo(SmallUniverse, 1), d2 \in SeqsUpTo(SmallUniverse, 1) :
       tenantDocs = [t \in Requests |-> WithIds(IF t = 1 THEN d1 ELSE d2)]
  /\ tenantItems = [t \in Requests |-> <<Item("W1", "Widget A")>>]
  /\ req = [r \in Requests |-> IdleReq(DefaultInput)]
  /\ calls = {}
  /\ rwrLog = {}
  /\ faults = 0
  /\ AuxIdle

SpecConc == InitConc /\ [][Next]_vars

\* the same call made twice: two requests of one session with the same filters,
\* against a provider that answers every call
InitTwice ==
  /\ now \in Todays
  /\ cookieMode = FALSE
  /\ sessions = [r \in Requests |-> SessionOf(1)]
  /\ xeroTokenSet = NoToken
  /\ \E docs \in SeqsUpTo(SmallUniverse, MaxDocsFaulty) :
       tenantDocs = [t \in Requests |-> IF t = 1 THEN WithIds(docs) ELSE <<>>]
  /\ \E cat \in Catalogs : tenantItems = [t \in Requests |-> IF t = 1 THEN cat ELSE <<>>]
  /\ \E input \in Inputs : req = [r \in Requests |-> IdleReq(input)]
  /\ calls = {}
  /\ rwrLog = {}
  /\ faults = 0
  /\ AuxIdle

SpecTwice == InitTwice /\ [][NextData]_vars

\* documents per tenant when the months of the comparisons are explored
MaxDocsMonths == 3

\* documents of three months, two of them one year apart
MonthsUniverse ==
  { CamelDoc("accrec", "paid", DayPrevYear, <<>>, <<>>, "", <<LineD>>, "", ""),
    CamelDoc("ACCREC", "AUTHORISED", DayPrevMonth, <<20>>, <<0>>, "", <<>>, "w1", ""),
    CamelDoc("ACCREC", "AUTHORISED", DayIn, <<>>, <<>>, "Exclusive", <<LineA>>, "", "INV-7"),
    CamelDoc("ACCRECCREDIT", "AUTHORISED", DayIn, <<>>, <<>>, "Exclusive", <<LineA>>, "", ""),
    CamelDoc("ACCREC", "PAID", YMD(2024, 6, 3), <<>>, <<>>, "", <<LineB>>, "", "") }

InitMonths ==
  InitOne(SeqsUpTo(MonthsUniverse, MaxDocsMonths), {SessionOf(1)}, {FALSE}, 0)

\* one request over documents spread on several months
SpecMonths == InitMonths /\ [][NextData]_vars

\* invoices the provider holds when the cash route is explored
MaxCashInvoices == 2

\* payments the provider holds when the cash route is explored
MaxPayments == 2

CashLinesAB ==
  <<CashLine("w1", 2, 14, 2, 0), CashLine("x9", 1, 0, 0, 6)>>

CashInvoices ==
  { CashInvoice("", "ACCREC", "AUTHORISED", CashLinesAB, 20, 2),
    CashInvoice("", "ACCRECCREDIT", "AUTHORISED", CashLinesAB, 20, 2),
    CashInvoice("", "ACCREC", "DRAFT", CashLinesAB, 20, 2),
    CashInvoice("", "ACCREC", "VOIDED", CashLinesAB, 20, 2),
    CashInvoice("", "ACCPAY", "AUTHORISED", CashLinesAB, 20, 2),
    CashInvoice("", "accrec", "paid", <<>>, 10, 1),
    CashInvoice("", "ACCREC", "AUTHORISED", <<>>, 5, 5) }

PayDay == DaysFromCivil(2024, 6, 10)

CashPayments ==
  { Payment(<<PayDay>>, "id1", 18),
    Payment(<<PayDay>>, "id1", 9),
    Payment(<<PayDay>>, "id2", 18),
    Payment(<<PayDay + 1>>, "id2", 9) }

\* invoiceID as the provider assigns it
CashWithIds(invs) == [i \in 1..Len(invs) |-> [invs[i] EXCEPT !.invoiceID = IdOf(i)]]

InitCash ==
  /\ AnalyticsOff
  /\ buffer = <<>>
  /\ recent = NoRecent
  /\ \E session \in BOOLEAN, end \in {<<>>, <<PayDay>>},
        invs \in SeqsUpTo(CashInvoices, MaxCashInvoices),
        pays \in SeqsUpTo(CashPayments, MaxPayments) :
       cash = [CashOff EXCEPT !.pc = "idle", !.session = session, !.end = end,
                              !.rawInvoices = CashWithIds(invs), !.payments = pays]

NextCash ==
  \/ CashNoSession
  \/ CashFetch
  \/ CashFetchFailed
  \/ CashRespond

\* one GET /api/debug/cash-weighted-items over every list of invoices and payments
SpecCash == InitCash /\ [][NextCash]_vars

\* events added in one behaviour
MaxAdded == 5

\* events of one addWebhookEvents call
MaxBatch == 2

\* the largest limit asked for
MaxLimit == 4

\* n events, numbered in arrival order from first
Batch(first, n) == [i \in 1..n |-> first + i - 1]

InitWebhook ==
  /\ AnalyticsOff
  /\ cash = CashOff
  /\ buffer = <<>>
  /\ recent = NoRecent

NextWebhook ==
  \/ \E n \in 0..MaxBatch :
       /\ recent.added + n <= MaxAdded
       /\ addWebhookEvents(Batch(recent.added + 1, n))
  \/ \E limit \in 0..MaxLimit : getRecentWebhookEvents(limit)

\* the webhook store under any sequence of calls
SpecWebhook == InitWebhook /\ [][NextWebhook]_vars

----------------------------------------------------------------------------
(* Properties *)

Done(r) == req[r].pc = "done"

Started(r) == req[r].pc \notin {"idle", "off"}

\* the object getXeroAnalytics returns when the provider delivers docs and
\* allItems
ResultOf(docs, allItems, input, today) ==
  AggregateProducts(AggregateBuckets(docs, input, normalizeRange(input, today), today),
                    allItems, normalizeRange(input, today), today)

SumSales(entries) == FoldSeq(LAMBDA acc, e : acc + e.sales, 0, entries)

\* every document carries its fields in the SDK's camelCase
AllCamel(docs) == \A i \in 1..Len(docs) : docs[i].casing = "camel"

\* C1: for every set of fetched documents, catalog and filters, the sum of
\* `sales` over all entries of salesByProduct equals totals.sales. Stated on
\* the fetched sets whose documents are all camelCase, where it already fails.
C1_Reconciliation ==
  \A r \in Requests :
    (Done(r) /\ AllCamel(req[r].fetchedAll)) =>
      SumSales(req[r].result.salesByProduct) = req[r].result.totals.sales

\* the document with its type replaced, in the capitalisation it carries
WithType(inv, t) ==
  IF inv.casing = "camel" THEN [inv EXCEPT !.type = t] ELSE [inv EXCEPT !.Type = t]

NegatedTotals(a, b) == a.qty = -b.qty /\ a.sales = -b.sales

NegatedSeries(a, b) ==
  /\ Len(a) = Len(b)
  /\ \A i \in 1..Len(a) :
       /\ a[i].key = b[i].key
       /\ a[i].quantity = -b[i].quantity
       /\ a[i].sales = -b[i].sales

\* two product maps (sequences of [k, v]) with the same ids and negated sums
NegatedProducts(a, b) ==
  { [id |-> a[i].k, qty |-> a[i].v.qty, sales |-> a[i].v.sales] : i \in 1..Len(a) }
  = { [id |-> b[i].k, qty |-> -b[i].v.qty, sales |-> -b[i].v.sales] : i \in 1..Len(b) }

NegatedPerKey(a, b) ==
  /\ Len(a) = Len(b)
  /\ \A i \in 1..Len(a) : a[i].key = b[i].key /\ NegatedProducts(a[i].per, b[i].per)

NegatedResult(a, b) ==
  /\ NegatedTotals(a.totals, b.totals)
  /\ NegatedSeries(a.series, b.series)
  /\ { [id |-> a.salesByProduct[i].id, qty |-> a.salesByProduct[i].qty,
        sales |-> a.salesByProduct[i].sales] : i \in 1..Len(a.salesByProduct) }
     = { [id |-> b.salesByProduct[i].id, qty |-> -b.salesByProduct[i].qty,
          sales |-> -b.salesByProduct[i].sales] : i \in 1..Len(b.salesByProduct) }
  /\ NegatedPerKey(a.seriesProduct, b.seriesProduct)
  /\ Len(a.monthlyTotals) = Len(b.monthlyTotals)
  /\ \A i \in 1..Len(a.monthlyTotals) :
       /\ a.monthlyTotals[i].key = b.monthlyTotals[i].key
       /\ a.monthlyTotals[i].qty = -b.monthlyTotals[i].qty
       /\ a.monthlyTotals[i].sales = -b.monthlyTotals[i].sales
  /\ NegatedPerKey(a.monthlyProduct, b.monthlyProduct)

\* C2: for any retained document D, replacing its type by ACCRECCREDIT and
\* keeping every other field negates D's contribution to every accumulated
\* quantity and sales value (totals, series, per product, per bucket per
\* product, monthly, monthly per product), compared with D as ACCREC.
C2_CreditNoteNegates ==
  \A r \in Requests :
    Done(r) =>
      \A i \in 1..Len(req[r].p1.invoices) :
        NegatedResult(
          ResultOf(<<WithType(req[r].p1.invoices[i], "ACCRECCREDIT")>>,
                   tenantItems[req[r].session.tenantId], req[r].input, now),
          ResultOf(<<WithType(req[r].p1.invoices[i], "ACCREC")>>,
                   tenantItems[req[r].session.tenantId], req[r].input, now))

\* a status that is not AUTHORISED, PAID or empty
BadStatus(inv) == docStatus(inv) \notin {"AUTHORISED", "PAID", ""}

\* the output aggregates of a result
Aggregates(res) ==
  [totals |-> res.totals, series |-> res.series, seriesProduct |-> res.seriesProduct,
   salesByProduct |-> res.salesByProduct, monthlyTotals |-> res.monthlyTotals,
   monthlyProduct |-> res.monthlyProduct, credits |-> res.credits,
   recentInvoices |-> res.recentInvoices]

\* no retained document has a bad status, and the aggregates are those of the
\* fetched documents without the bad-status ones
BadStatusContributesNothing(r) ==
  /\ \A i \in 1..Len(req[r].p1.invoices) : ~BadStatus(req[r].p1.invoices[i])
  /\ Aggregates(req[r].result)
     = Aggregates(ResultOf(SelectSeq(req[r].fetchedAll, LAMBDA d : ~BadStatus(d)),
                           tenantItems[req[r].session.tenantId], req[r].input, now))

\* C3 (as amended): a fetched document with a bad status is never retained and
\* contributes nothing to any output aggregate; excludedStatus counts exactly
\* the bad-status documents that carry a date and pass the type test.
C3_BadStatusExcluded ==
  \A r \in Requests :
    Done(r) =>
      /\ BadStatusContributesNothing(r)
      /\ req[r].result.diagnostics.excludedStatus
         = Cardinality({ i \in 1..Len(req[r].fetchedAll) :
                           /\ BadStatus(req[r].fetchedAll[i])
                           /\ docDate(req[r].fetchedAll[i]).kind # "none"
                           /\ typeOk(req[r].fetchedAll[i], req[r].input) })

\* C3 (as stated): every fetched document with a bad status is never retained,
\* increments excludedStatus and contributes nothing to any output aggregate.
C3_EveryBadStatusCounted ==
  \A r \in Requests :
    Done(r) =>
      /\ BadStatusContributesNothing(r)
      /\ req[r].result.diagnostics.excludedStatus
         = Cardinality({ i \in 1..Len(req[r].fetchedAll) :
                           BadStatus(req[r].fetchedAll[i]) })

\* a result over a VOIDED document that was counted, beside a retained one
C3_Witness ==
  /\ Done(1)
  /\ \E i \in 1..Len(req[1].fetchedAll) : BadStatus(req[1].fetchedAll[i])
  /\ req[1].result.diagnostics.excludedStatus = 1
  /\ Len(req[1].p1.invoices) = 1

\* C4: a fetched document is retained only if its type is ACCREC or
\* ACCRECCREDIT, or ACCPAY with includePurchases; a document of any other
\* type, without a type, or with its type only under the alternative field
\* capitalisation is dropped.
C4_OnlySalesTypesRetained ==
  \A r \in Requests :
    Done(r) =>
      \A i \in 1..Len(req[r].p1.invoices) :
        \/ toUpperCase(req[r].p1.invoices[i].type) \in {"ACCREC", "ACCRECCREDIT"}
        \/ /\ toUpperCase(req[r].p1.invoices[i].type) = "ACCPAY"
           /\ req[r].input.includePurchases

\* C5: a provider call made through requestWithRetry is invoked a second time
\* if and only if its first invocation failed with an authorization error, and
\* then exactly one token refresh is attempted before the single retry; it is
\* never invoked more than twice; a non-authorization failure causes no
\* refresh and no retry, and the error is rethrown as it is.
C5_RetryOnceAfterUnauthorized ==
  /\ \A r \in Requests :
       /\ req[r].attempt \in 0..2
       /\ req[r].refreshes \in 0..1
       /\ req[r].pc \in {"refresh", "persist"} =>
            /\ req[r].attempt = 1
            /\ req[r].firstErr # NoErr /\ unauthorized(req[r].firstErr)
       /\ req[r].attempt = 2 =>
            /\ req[r].refreshes = 1
            /\ req[r].firstErr # NoErr /\ unauthorized(req[r].firstErr)
       /\ req[r].attempt = 1 /\ req[r].pc # "persist" => req[r].refreshes = 0
       /\ (req[r].pc = "failed" /\ sessions[r].tenantId # 0
           /\ req[r].error # "RangeError: Invalid time value") =>
            \E e \in rwrLog :
              e.req = r /\ e.thrown # NoErr /\ req[r].error = ErrText(e.thrown)
  /\ \A c \in calls : c.attempt \in {1, 2}
  /\ \A e \in rwrLog :
       /\ e.invocations \in {1, 2}
       /\ e.invocations = 2 <=> (e.firstErr # NoErr /\ unauthorized(e.firstErr))
       /\ e.refreshes = (IF e.invocations = 2 THEN 1 ELSE 0)
       /\ (e.invocations = 1 /\ e.thrown # NoErr) => ~unauthorized(e.thrown)

\* one call was retried once after one refresh, and a later call failed with a
\* non-authorization error on its first invocation
C5_Witness ==
  /\ \E e \in rwrLog :
       e.invocations = 2 /\ e.refreshes = 1 /\ unauthorized(e.firstErr)
  /\ \E e \in rwrLog :
       e.invocations = 1 /\ e.refreshes = 0 /\ e.thrown = Err500
  /\ req[1].pc = "failed" /\ req[1].error = "500"

\* C6: if any upstream fetch of a request (header page, hydrate chunk or
\* catalog fetch) still fails after its single retry, or fails with a
\* non-authorization error, the request raises an error and returns no result.
C6_FailedFetchNoResult ==
  \A r \in Requests :
    (\E e \in rwrLog : e.req = r /\ e.thrown # NoErr) =>
      req[r].pc = "failed" /\ req[r].result = <<>>

\* C7: without a session getXeroAnalytics fails at once, before any provider
\* call, token refresh or retry.
C7_NoSessionFailsFirst ==
  \A r \in Requests :
    (sessions[r].tenantId = 0 /\ Started(r)) =>
      /\ req[r].pc = "failed" /\ req[r].error = "No Xero session"
      /\ \A c \in calls : c.req # r
      /\ \A e \in rwrLog : e.req # r
      /\ req[r].attempt = 0 /\ req[r].refreshes = 0
      /\ xeroTokenSet = NoToken

\* the request without a session has been made and has failed
C7_Witness ==
  /\ sessions[1].tenantId = 0
  /\ req[1].pc = "failed"
  /\ calls = {}

\* C8: range normalisation never raises: a malformed start or end falls back
\* to the default bound (start = today - 29 days, end = today) and the request
\* does not throw because of the range.
C8_RangeNeverRaises ==
  \A r \in Requests :
    (Started(r) /\ sessions[r].tenantId # 0) =>
      /\ req[r].input.start.kind = "bad" =>
           normalizeRange(req[r].input, now).start = <<now - 29>>
      /\ req[r].input.end.kind = "bad" =>
           normalizeRange(req[r].input, now).end = <<now>>
      /\ req[r].error # "RangeError: Invalid time value"

\* the product ids of all months of monthlyProduct
MonthlyIds(mp) ==
  UNION { { mp[i].per[j].k : j \in 1..Len(mp[i].per) } : i \in 1..Len(mp) }

\* qty and sales of product id summed over the months of monthlyProduct
SumOverMonths(mp, id) ==
  FoldSeq(LAMBDA acc, e :
            [qty |-> acc.qty + MapGet(e.per, id, [qty |-> 0, sales |-> 0]).qty,
             sales |-> acc.sales + MapGet(e.per, id, [qty |-> 0, sales |-> 0]).sales],
          [qty |-> 0, sales |-> 0], mp)

\* C9: the product identity of the flat product map and seriesProduct is the
\* one used for monthlyProduct: both views have the same product ids, and the
\* qty and sales of every product summed over the months of monthlyProduct are
\* its qty and sales in salesByProduct. Stated on the fetched sets whose
\* documents are all camelCase, where it already fails.
C9_SameProductIdentity ==
  \A r \in Requests :
    (Done(r) /\ AllCamel(req[r].fetchedAll)) =>
      /\ { req[r].result.salesByProduct[i].id :
             i \in 1..Len(req[r].result.salesByProduct) }
         = MonthlyIds(req[r].result.monthlyProduct)
      /\ \A i \in 1..Len(req[r].result.salesByProduct) :
           SumOverMonths(req[r].result.monthlyProduct,
                         req[r].result.salesByProduct[i].id)
           = [qty |-> req[r].result.salesByProduct[i].qty,
              sales |-> req[r].result.salesByProduct[i].sales]

\* C10: two concurrent requests of different sessions are independent: every
\* provider call carries the credentials of the request that issues it, and
\* each request returns the result it returns when it runs alone.
C10_ConcurrentRequestsIndependent ==
  /\ \A c \in calls : c.token.owner = c.req
  /\ \A r \in Requests :
       /\ req[r].pc # "failed"
       /\ Done(r) => req[r].result
                     = ResultOf(tenantDocs[r], tenantItems[r], req[r].input, now)

Perms(n) == { f \in [1..n -> 1..n] : \A i, j \in 1..n : f[i] = f[j] => i = j }

Permuted(docs, f) == [i \in 1..Len(docs) |-> docs[f[i]]]

\* the cells [key, id, qty, sales] of seriesProduct or monthlyProduct
CellsOf(perKey) ==
  UNION { { [key |-> perKey[i].key, id |-> perKey[i].per[j].k,
             qty |-> perKey[i].per[j].v.qty, sales |-> perKey[i].per[j].v.sales] :
            j \in 1..Len(perKey[i].per) } : i \in 1..Len(perKey) }

\* every sum of a result
SumsOf(res) ==
  [totals |-> res.totals,
   series |-> res.series,
   products |-> { [id |-> res.salesByProduct[i].id, qty |-> res.salesByProduct[i].qty,
                   sales |-> res.salesByProduct[i].sales] :
                  i \in 1..Len(res.salesByProduct) },
   seriesProduct |-> CellsOf(res.seriesProduct),
   monthlyTotals |-> res.monthlyTotals,
   monthlyProduct |-> CellsOf(res.monthlyProduct),
   credits |-> res.credits]

\* C12: for any permutation of the fetched document list every sum of the
\* output is unchanged: totals, each series bucket, each product of
\* salesByProduct, each cell of seriesProduct, each monthlyTotals entry, each
\* cell of monthlyProduct, and credits.
C12_PermutationInvariant ==
  \A r \in Requests :
    Done(r) =>
      \A f \in Perms(Len(req[r].fetchedAll)) :
        SumsOf(ResultOf(Permuted(req[r].fetchedAll, f),
                        tenantItems[req[r].session.tenantId], req[r].input, now))
        = SumsOf(req[r].result)

\* a result over two different retained documents that share a product
C12_Witness ==
  /\ Done(1)
  /\ Len(req[1].p1.invoices) = 2
  /\ req[1].fetchedAll[1] # req[1].fetchedAll[2]
  /\ Len(req[1].result.salesByProduct) = 1

\* the filters whose range is explored: every preset, with and without
\* supplied bounds and granularity
RangeInputs ==
  { Filters(preset, start, end, granularity, FALSE, chunk) :
      preset \in {"", "last30", "thisMonth", "ytd", "custom"},
      start \in {NoDateStr, YMD(2024, 5, 20)},
      end \in {NoDateStr, YMD(2024, 6, 12)},
      granularity \in {"", "week"},
      chunk \in {<<>>, <<1>>} }

\* current UTC days: mid-year, T - 29 in the same month, T - 29 across February
\* of a leap year
RangeTodays ==
  { DaysFromCivil(2024, 6, 15), DaysFromCivil(2024, 1, 31), DaysFromCivil(2024, 3, 1) }

InitRange ==
  /\ now \in RangeTodays
  /\ cookieMode = FALSE
  /\ sessions = [r \in Requests |-> IF r = 1 THEN SessionOf(1) ELSE NoSession]
  /\ xeroTokenSet = NoToken
  /\ \E docs \in SeqsUpTo(SmallUniverse, MaxDocsFaulty) :
       tenantDocs = [t \in Requests |-> IF t = 1 THEN WithIds(docs) ELSE <<>>]
  /\ tenantItems = [t \in Requests |-> <<>>]
  /\ \E input \in RangeInputs :
       req = [r \in Requests |-> IF r = 1 THEN IdleReq(input) ELSE OffReq]
  /\ calls = {}
  /\ rwrLog = {}
  /\ faults = 0
  /\ AuxIdle

\* one request for every preset and every combination of supplied bounds
SpecRange == InitRange /\ [][NextData]_vars

\* the months of the retained documents
MonthsPresent(invoices, today) ==
  { monthKey(docDay(invoices[i], today)) : i \in 1..Len(invoices) }

\* the monthly-map value of month mk: the sums over the retained documents of
\* that month
MonthValue(invoices, today, mk) ==
  FoldSeq(LAMBDA acc, inv :
            IF monthKey(docDay(inv, today)) = mk
            THEN [qty |-> acc.qty + MonthlyQty(inv), sales |-> acc.sales + MonthlyTotal(inv)]
            ELSE acc,
          [qty |-> 0, sales |-> 0], invoices)

\* the keys of S in increasing order
SortedKeys(S) ==
  CHOOSE q \in [1..Cardinality(S) -> S] :
    \A i, j \in 1..Cardinality(S) : i < j => KeyLess(q[i], q[j])

\* C13: with n months m1 < ... < mn in the monthly map, mom has max(0, n-1)
\* entries and its i-th entry has prev = the value of mi and curr = the value
\* of m(i+1), whatever the calendar gap between them (no gap month is filled).
C13_MomConsecutiveKeys ==
  \A r \in Requests :
    Done(r) =>
      LET ks == SortedKeys(MonthsPresent(req[r].p1.invoices, now))
          mom == req[r].result.mom
      IN /\ Len(mom) = (IF Len(ks) = 0 THEN 0 ELSE Len(ks) - 1)
         /\ \A i \in 1..Len(mom) :
              /\ mom[i].period = <<ks[i], ks[i + 1]>>
              /\ mom[i].prev = MonthValue(req[r].p1.invoices, now, ks[i])
              /\ mom[i].curr = MonthValue(req[r].p1.invoices, now, ks[i + 1])

\* three months with a gap of eleven months between the first two
C13_Witness ==
  /\ Done(1)
  /\ Len(req[1].result.mom) = 2
  /\ req[1].result.mom[1].period = << <<2023, 6>>, <<2024, 5>> >>
  /\ req[1].result.mom[2].period = << <<2024, 5>>, <<2024, 6>> >>

\* C14: yoy has one entry per month of the monthly map, in sorted order; curr
\* is the month's value and prev the value of the same month one year earlier
\* when that month is present, otherwise {qty: 0, sales: 0}; no month is
\* dropped.
C14_YoyEveryMonth ==
  \A r \in Requests :
    Done(r) =>
      LET months == MonthsPresent(req[r].p1.invoices, now)
          ks == SortedKeys(months)
          yoy == req[r].result.yoy
      IN /\ Len(yoy) = Len(ks)
         /\ \A i \in 1..Len(yoy) :
              /\ yoy[i].month = ks[i]
              /\ yoy[i].curr = MonthValue(req[r].p1.invoices, now, ks[i])
              /\ yoy[i].prev =
                   (IF <<ks[i][1] - 1, ks[i][2]>> \in months
                    THEN MonthValue(req[r].p1.invoices, now, <<ks[i][1] - 1, ks[i][2]>>)
                    ELSE [qty |-> 0, sales |-> 0])

\* three months: June 2024 has June 2023 as its previous year, the others none
C14_Witness ==
  /\ Done(1)
  /\ Len(req[1].result.yoy) = 3
  /\ req[1].result.yoy[3].month = <<2024, 6>>
  /\ req[1].result.yoy[3].prev = [qty |-> 3, sales |-> 30]
  /\ req[1].result.yoy[2].prev = [qty |-> 0, sales |-> 0]

\* C15: for current UTC day T, normalizeRange gives start = first day of T's
\* month for thisMonth, 1 January of T's year for ytd, and the supplied start
\* or else T - 29 days for custom, last30 and an absent preset; end is the
\* supplied end or else T; granularity is the supplied one or else day; ytd
\* on 2024-06-15 gives 2024-01-01 .. 2024-06-15, also in the returned filters.
C15_NormalizeRange ==
  \A r \in Requests :
    req[r].range # <<>> =>
      LET f == req[r].input
          range == req[r].range
          T == CivilFromDays(now)
          start == CivilFromDays(range.start[1])
      IN /\ f.preset = "thisMonth" => start = <<T[1], T[2], 1>>
         /\ f.preset = "ytd" => start = <<T[1], 1, 1>>
         /\ f.preset \in {"custom", "last30", ""} =>
              IF f.start.kind = "ymd" THEN start = <<f.start.y, f.start.m, f.start.d>>
              ELSE range.start[1] + 29 = now
         /\ IF f.end.kind = "ymd"
            THEN CivilFromDays(range.end[1]) = <<f.end.y, f.end.m, f.end.d>>
            ELSE range.end[1] = now
         /\ range.granularity = (IF f.granularity = "" THEN "day" ELSE f.granularity)
         /\ (f.preset = "ytd" /\ f.end.kind = "none" /\ T = <<2024, 6, 15>> /\ Done(r)) =>
              /\ req[r].result.filters.start = <<2024, 1, 1>>
              /\ req[r].result.filters.end = <<2024, 6, 15>>

\* the ytd scenario of 2024-06-15 has returned its filters
C15_Witness ==
  /\ Done(1)
  /\ now = DaysFromCivil(2024, 6, 15)
  /\ req[1].input.preset = "ytd"
  /\ req[1].input.start.kind = "ymd"
  /\ req[1].input.end.kind = "none"
  /\ req[1].result.filters.start = <<2024, 1, 1>>
  /\ req[1].result.filters.end = <<2024, 6, 15>>
  /\ req[1].result.filters.granularity = "day"

\* the request returned a result over one fetched document, which is retained
Sole(r) == Done(r) /\ Len(req[r].fetchedAll) = 1 /\ Len(req[r].p1.invoices) = 1

\* -1 for a sales credit note, +1 otherwise
SignOfKind(inv) == IF docType(inv) = "ACCRECCREDIT" THEN -1 ELSE 1

\* qty and sales summed over the cells of seriesProduct or monthlyProduct
SumCells(perKey) ==
  FoldSeq(LAMBDA acc, e :
            FoldSeq(LAMBDA a, c : [qty |-> a.qty + c.v.qty, sales |-> a.sales + c.v.sales],
                    acc, e.per),
          [qty |-> 0, sales |-> 0], perKey)

SumQty(entries) == FoldSeq(LAMBDA acc, e : acc + e.qty, 0, entries)

\* C16: a retained document with no line items, a non-zero total T and total
\* tax X contributes exactly sign*1 and sign*(T - X) to totals, to its series
\* bucket, to its month and to exactly one product entry, whose identity is
\* not empty. Stated on camelCase documents.
C16_NoLinePseudoLine ==
  \A r \in Requests :
    (Sole(r) /\ AllCamel(req[r].fetchedAll)
       /\ docItems(req[r].p1.invoices[1]) = <<>>
       /\ NumOr0(req[r].p1.invoices[1].total) # 0
       /\ Has(req[r].p1.invoices[1].totalTax)) =>
      LET inv == req[r].p1.invoices[1]
          res == req[r].result
          q == SignOfKind(inv)
          sales == SignOfKind(inv) * (NumOr0(inv.total) - NumOr0(inv.totalTax))
      IN /\ res.totals = [qty |-> q, sales |-> sales]
         /\ Len(res.series) = 1
         /\ res.series[1].quantity = q /\ res.series[1].sales = sales
         /\ Len(res.monthlyTotals) = 1
         /\ res.monthlyTotals[1].qty = q /\ res.monthlyTotals[1].sales = sales
         /\ Len(res.salesByProduct) = 1
         /\ res.salesByProduct[1].qty = q /\ res.salesByProduct[1].sales = sales
         /\ res.salesByProduct[1].id # ""
         /\ SumCells(res.seriesProduct) = [qty |-> q, sales |-> sales]
         /\ SumCells(res.monthlyProduct) = [qty |-> q, sales |-> sales]

\* g - t of a line: g is lineAmount when present, otherwise unitAmount *
\* quantity; t is taxAmount when present, otherwise 0
LineNet(li) ==
  (IF Has(liLineAmount(li)) THEN liLineAmount(li)[1]
   ELSE NumOr0(liUnitAmount(li)) * NumOr0(liQuantity(li))) - NumOr0(liTaxAmount(li))

\* the sum of sign * (g - t) over the lines of the document
DocNet(inv) ==
  FoldSeq(LAMBDA acc, li : acc + SignOfKind(inv) * LineNet(li), 0, docItems(inv))

\* C17: for a retained document with at least one line item, the lines
\* contribute sign * (g - t) each to the sales of their products
\* (salesByProduct, seriesProduct, monthlyProduct) and to the document's
\* share of totals.sales. Stated on camelCase documents.
C17_LineSalesEverywhere ==
  \A r \in Requests :
    (Sole(r) /\ AllCamel(req[r].fetchedAll)
       /\ docItems(req[r].p1.invoices[1]) # <<>>) =>
      /\ SumSales(req[r].result.salesByProduct) = DocNet(req[r].p1.invoices[1])
      /\ SumCells(req[r].result.seriesProduct).sales = DocNet(req[r].p1.invoices[1])
      /\ SumCells(req[r].result.monthlyProduct).sales = DocNet(req[r].p1.invoices[1])
      /\ req[r].result.totals.sales = DocNet(req[r].p1.invoices[1])

\* the effective quantity of a line: the stated quantity when present and
\* non-zero, otherwise 1 when lineAmount or unitAmount is present, otherwise 0
LineEffQty(li) ==
  IF Has(liQuantity(li)) /\ liQuantity(li)[1] # 0 THEN liQuantity(li)[1]
  ELSE IF Has(liLineAmount(li)) \/ Has(liUnitAmount(li)) THEN 1
  ELSE 0

DocEffQty(inv) ==
  FoldSeq(LAMBDA acc, li : acc + SignOfKind(inv) * LineEffQty(li), 0, docItems(inv))

\* C18: the effective quantity of every line (times sign) is what the line
\* adds to totals.qty, the series, the products and the months, so the sum of
\* qty over salesByProduct equals totals.qty. Stated on the fetched sets whose
\* documents are all camelCase, where it already fails.
C18_QtyEverywhere ==
  \A r \in Requests :
    /\ (Done(r) /\ AllCamel(req[r].fetchedAll)) =>
         SumQty(req[r].result.salesByProduct) = req[r].result.totals.qty
    /\ (Sole(r) /\ AllCamel(req[r].fetchedAll)
          /\ docItems(req[r].p1.invoices[1]) # <<>>) =>
         /\ req[r].result.totals.qty = DocEffQty(req[r].p1.invoices[1])
         /\ SumQty(req[r].result.salesByProduct) = DocEffQty(req[r].p1.invoices[1])
         /\ SumCells(req[r].result.seriesProduct).qty = DocEffQty(req[r].p1.invoices[1])
         /\ SumCells(req[r].result.monthlyProduct).qty = DocEffQty(req[r].p1.invoices[1])

\* the retained sales credit notes
RetainedCredits(r) ==
  SelectSeq(req[r].p1.invoices, LAMBDA inv : docType(inv) = "ACCRECCREDIT")

\* C19: credits.count is the number of retained sales credit notes,
\* credits.qty and credits.sales are the sums of their signed contributions
\* to totals, and both are <= 0 (the amounts of the documents are
\* non-negative).
C19_CreditsSummary ==
  \A r \in Requests :
    Done(r) =>
      /\ req[r].result.credits.count = Len(RetainedCredits(r))
      /\ req[r].result.credits.qty =
           AggregateBuckets(RetainedCredits(r), req[r].input, req[r].range, now).totals.qty
      /\ req[r].result.credits.sales =
           AggregateBuckets(RetainedCredits(r), req[r].input, req[r].range, now).totals.sales
      /\ req[r].result.credits.qty <= 0
      /\ req[r].result.credits.sales <= 0

\* the number of fetched documents of request r that satisfy P
CountDocs(r, P(_)) ==
  Cardinality({ i \in 1..Len(req[r].fetchedAll) : P(req[r].fetchedAll[i]) })

HasDate(inv) == docDate(inv).kind # "none"

\* start <= date <= end for a document that carries a date
InWindow(r, inv) ==
  /\ DateGE(ParseDate(docDate(inv)), req[r].range.start)
  /\ DateLE(ParseDate(docDate(inv)), req[r].range.end)

\* C20 as stated: every fetched document failing the type test increments
\* excludedNonSales, every one passing it and failing the status test
\* increments excludedStatus, and fetched = included + excludedNonSales +
\* excludedStatus + (documents passing type and status but not retained).
C20_CountersPartitionFetched ==
  \A r \in Requests :
    Done(r) =>
      LET d == req[r].result.diagnostics
      IN /\ d.excludedNonSales = CountDocs(r, LAMBDA inv : ~typeOk(inv, req[r].input))
         /\ d.excludedStatus =
              CountDocs(r, LAMBDA inv : typeOk(inv, req[r].input) /\ ~isGoodStatus(inv))
         /\ d.included = Len(req[r].p1.invoices)
         /\ d.fetched = d.included + d.excludedNonSales + d.excludedStatus
              + CountDocs(r, LAMBDA inv : /\ typeOk(inv, req[r].input)
                                          /\ isGoodStatus(inv)
                                          /\ ~(HasDate(inv) /\ InWindow(r, inv)))

\* C20, amended: a document without a date is dropped first and changes no
\* counter whatever its type and status; among the documents that carry a
\* date, a type failure increments excludedNonSales, a status failure after a
\* passed type test increments excludedStatus, and fetched = included +
\* excludedNonSales + excludedStatus + (dated, passing type and status,
\* outside the window) + (documents without a date).
C20_CountersPartitionDated ==
  \A r \in Requests :
    Done(r) =>
      LET d == req[r].result.diagnostics
      IN /\ d.fetched = Len(req[r].fetchedAll)
         /\ d.excludedNonSales =
              CountDocs(r, LAMBDA inv : HasDate(inv) /\ ~typeOk(inv, req[r].input))
         /\ d.excludedStatus =
              CountDocs(r, LAMBDA inv : /\ HasDate(inv) /\ typeOk(inv, req[r].input)
                                        /\ ~isGoodStatus(inv))
         /\ d.included = Len(req[r].p1.invoices)
         /\ d.included =
              CountDocs(r, LAMBDA inv : /\ HasDate(inv) /\ typeOk(inv, req[r].input)
                                        /\ isGoodStatus(inv) /\ InWindow(r, inv))
         /\ d.fetched = d.included + d.excludedNonSales + d.excludedStatus
              + CountDocs(r, LAMBDA inv : /\ HasDate(inv) /\ typeOk(inv, req[r].input)
                                          /\ isGoodStatus(inv) /\ ~InWindow(r, inv))
              + CountDocs(r, LAMBDA inv : ~HasDate(inv))

\* a voided document without a date next to a retained one: no counter moved
C20_Witness ==
  /\ Done(1)
  /\ Len(req[1].fetchedAll) = 2
  /\ \E i \in 1..2 : /\ ~HasDate(req[1].fetchedAll[i])
                     /\ ~isGoodStatus(req[1].fetchedAll[i])
  /\ req[1].result.diagnostics.included = 1
  /\ req[1].result.diagnostics.excludedStatus = 0
  /\ req[1].result.diagnostics.excludedNonSales = 0

\* the tax of a document: its totalTax when present, otherwise the sum of the
\* taxAmount of its lines (LinesTax)
LinesTax(inv) ==
  FoldSeq(LAMBDA acc, li : acc + NumOr0(liTaxAmount(li)), 0, docItems(inv))

DocTax(inv) == IF Has(inv.totalTax) THEN inv.totalTax[1] ELSE LinesTax(inv)

\* C21: a retained document with a total contributes to its series bucket's
\* sales and to its month's sales sign * (total - sum of the taxAmount of its
\* lines) when its tax mode is inclusive, and a pre-tax amount, sign * (total -
\* tax), in any other tax mode: tax is never part of sales. Stated on
\* camelCase documents.
C21_TotalIsPreTax ==
  \A r \in Requests :
    (Sole(r) /\ AllCamel(req[r].fetchedAll) /\ Has(req[r].p1.invoices[1].total)) =>
      LET inv == req[r].p1.invoices[1]
          expected ==
            IF toLowerCase(inv.lineAmountTypes) = "inclusive"
            THEN SignOfKind(inv) * (inv.total[1] - LinesTax(inv))
            ELSE SignOfKind(inv) * (inv.total[1] - DocTax(inv))
      IN /\ Len(req[r].result.series) = 1
         /\ req[r].result.series[1].sales = expected
         /\ Len(req[r].result.monthlyTotals) = 1
         /\ req[r].result.monthlyTotals[1].sales = expected

\* the product ids of a list of entries, in the order of the list
IdsOf(entries) == [i \in 1..Len(entries) |-> entries[i].id]

NoRepeat(q) == \A i, j \in 1..Len(q) : q[i] = q[j] => i = j

\* C22: productLegend and salesByProduct list every product exactly once in
\* the same order, by non-increasing sales, and top10BySales is the first
\* min(10, n) entries of that order. Stated on the fetched sets whose
\* documents are all camelCase, where it already fails.
C22_LegendAndSalesSameOrder ==
  \A r \in Requests :
    (Done(r) /\ AllCamel(req[r].fetchedAll)) =>
      LET res == req[r].result
      IN /\ NoRepeat(IdsOf(res.salesByProduct))
         /\ NoRepeat(IdsOf(res.productLegend))
         /\ \A i, j \in 1..Len(res.salesByProduct) :
              i < j => res.salesByProduct[i].sales >= res.salesByProduct[j].sales
         /\ res.top10BySales
              = SubSeq(res.salesByProduct, 1,
                       IF Len(res.salesByProduct) < 10 THEN Len(res.salesByProduct) ELSE 10)
         /\ IdsOf(res.productLegend) = IdsOf(res.salesByProduct)

\* C23: within one request a provider call that follows another one (header
\* page, hydrate chunk, catalog fetch, retry after a 401) is issued only when
\* the inter-call delay has elapsed: the request issues it from its sleep.
C23_DelayBetweenCalls ==
  [][\A r \in Requests :
       ((\E c \in calls' \ calls : c.req = r) /\ (\E c \in calls : c.req = r))
         => req[r].pc = "sleep"]_vars

\* filters that carry the optional field `pages`
PagesInputs ==
  { [preset |-> "", start |-> NoDateStr, end |-> NoDateStr, granularity |-> "",
     includePurchases |-> FALSE, chunk |-> chunk, pages |-> pages] :
      chunk \in {<<>>, <<1>>, NaNNumber}, pages \in {<<>>, <<1>>, <<2>>} }

InitPages ==
  /\ now \in Todays
  /\ cookieMode = FALSE
  /\ sessions = [r \in Requests |-> IF r = 1 THEN SessionOf(1) ELSE NoSession]
  /\ xeroTokenSet = NoToken
  /\ \E docs \in SeqsUpTo(SmallUniverse, MaxDocsFaulty) :
       tenantDocs = [t \in Requests |-> IF t = 1 THEN WithIds(docs) ELSE <<>>]
  /\ \E cat \in Catalogs : tenantItems = [t \in Requests |-> IF t = 1 THEN cat ELSE <<>>]
  /\ \E input \in PagesInputs :
       req = [r \in Requests |-> IF r = 1 THEN IdleReq(input) ELSE OffReq]
  /\ calls = {}
  /\ rwrLog = {}
  /\ faults = 0
  /\ AuxIdle

\* one request whose filters may limit the number of header pages
SpecPages == InitPages /\ [][NextData]_vars

\* the header pages request r has asked for
HeaderPagesOf(r) == { c.page : c \in { d \in calls : d.req = r /\ d.phase = "headers" } }

\* C24: the header pages are requested in order 1, 2, 3, ..., none after the
\* first empty page, and when filters.pages is supplied at most filters.pages
\* header pages are fetched.
C24_HeaderPagesBounded ==
  \A r \in Requests :
    Started(r) =>
      /\ HeaderPagesOf(r) = 1..Cardinality(HeaderPagesOf(r))
      /\ \A p \in HeaderPagesOf(r) :
           p > 1 => ProviderPage(tenantDocs[req[r].session.tenantId], p - 1) # <<>>
      /\ Has(req[r].input.pages) => Cardinality(HeaderPagesOf(r)) <= req[r].input.pages[1]

\* the route answered with its rows
CashDone == cash.pc = "done" /\ cash.status = 200

\* the raw invoice a payment names (ids are unique), <<>> when there is none
CashInvoiceOf(p) ==
  SelectSeq(cash.rawInvoices, LAMBDA inv : inv.invoiceID = p.invoiceID)

\* the payment is in the window and names a sales invoice or credit note that
\* is neither draft nor voided and has a non-zero total net
CashCounts(p) ==
  /\ p.date # <<>> /\ p.amount # 0
  /\ cash.end # <<>> => p.date[1] <= cash.end[1]
  /\ CashInvoiceOf(p) # <<>>
  /\ toUpperCase(CashInvoiceOf(p)[1].status) \notin {"DRAFT", "VOIDED"}
  /\ toUpperCase(CashInvoiceOf(p)[1].type) \in {"ACCREC", "ACCRECCREDIT"}
  /\ FoldSeq(LAMBDA acc, l : acc + l.net, 0, CashLinesOf(CashInvoiceOf(p)[1])) # 0

\* the same invoices with every sales credit note turned into a sales invoice
AsInvoices(raw) ==
  [i \in 1..Len(raw) |->
     IF toUpperCase(raw[i].type) = "ACCRECCREDIT" THEN [raw[i] EXCEPT !.type = "ACCREC"]
     ELSE raw[i]]

\* C25: a payment applied to a sales credit note adds to every (payment date,
\* item) aggregate the opposite of what the same payment on an identical
\* sales invoice adds, for cash_qty and for cash_net, and the signs of the qty
\* and net it adds agree.
C25_CreditNoteIsNegativeInvoice ==
  (CashDone /\ Len(cash.payments) = 1 /\ CashCounts(cash.payments[1])
     /\ toUpperCase(CashInvoiceOf(cash.payments[1])[1].type) = "ACCRECCREDIT") =>
    LET asInvoice == CashAggOf(CashInvoiceMap(AsInvoices(cash.rawInvoices)),
                               cash.payments, cash.start, cash.end)
    IN /\ Len(cash.agg) = Len(asInvoice)
       /\ \A i \in 1..Len(cash.agg) :
            /\ cash.agg[i].k = asInvoice[i].k
            /\ cash.agg[i].v.qty = -asInvoice[i].v.qty
            /\ cash.agg[i].v.net = -asInvoice[i].v.net
            /\ cash.agg[i].v.qty * cash.agg[i].v.net >= 0

\* the sum of the amounts of the payments that count
CountedAmount(payments) ==
  FoldSeq(LAMBDA acc, p : IF CashCounts(p) THEN acc + p.amount ELSE acc, 0, payments)

C27_MonthlyAgreesWithBuckets ==
  \A r \in Requests :
    Done(r) =>
      LET res == req[r].result
      IN /\ SumQty(res.monthlyTotals) = res.totals.qty
         /\ SumSales(res.monthlyTotals) = res.totals.sales
         /\ Len(res.monthlyDict) = Len(res.monthlyTotals)
         /\ \A i \in 1..Len(res.monthlyTotals) :
              MapGet(res.monthlyDict, res.monthlyTotals[i].key, <<>>)
              = [qty |-> res.monthlyTotals[i].qty, sales |-> res.monthlyTotals[i].sales]
         /\ res.filters.granularity = "month" =>
              /\ Len(res.series) = Len(res.monthlyTotals)
              /\ \A i \in 1..Len(res.series) :
                   /\ res.series[i].key
                      = <<res.monthlyTotals[i].key[1], res.monthlyTotals[i].key[2], 1>>
                   /\ res.series[i].quantity = res.monthlyTotals[i].qty
                   /\ res.series[i].sales = res.monthlyTotals[i].sales

\* granularity month, two retained documents of different days of June 2024:
\* one bucket that holds their sum
C27_Witness ==
  /\ Done(1)
  /\ req[1].result.filters.granularity = "month"
  /\ Len(req[1].p1.invoices) = 2
  /\ req[1].p1.invoices[1].date = DayIn
  /\ req[1].p1.invoices[2].date = YMD(2024, 6, 3)
  /\ Len(req[1].result.series) = 1
  /\ req[1].result.series[1].key = <<2024, 6, 1>>
  /\ req[1].result.series[1].quantity = 3
  /\ req[1].result.series[1].sales = 28

\* the positions of id in the hydrate chunks of request r
ChunkPositions(r, id) ==
  { <<k, j>> \in (1..Len(req[r].chunks)) \X (1..HydrateChunkCap) :
      j <= Len(req[r].chunks[k]) /\ req[r].chunks[k][j] = id }

\* C28: after hydration the fetched list has the length and the order of the
\* headers, each header whose ID occurs in a hydrate response being replaced
\* by the hydrated document of that ID and every other header kept; every
\* header ID is sent in exactly one hydrate chunk of between 1 and 40 IDs;
\* diagnostics.fetched is the number of headers.
C28_HydrateMerge ==
  \A r \in Requests :
    Done(r) =>
      /\ Len(req[r].fetchedAll) = Len(req[r].headers)
      /\ req[r].result.diagnostics.fetched = Len(req[r].headers)
      /\ \A i \in 1..Len(req[r].headers) :
           IF \E j \in 1..Len(req[r].hydrated) :
                getId(req[r].hydrated[j]) = getId(req[r].headers[i])
           THEN getId(req[r].fetchedAll[i]) = getId(req[r].headers[i])
                /\ \E j \in 1..Len(req[r].hydrated) :
                     req[r].fetchedAll[i] = req[r].hydrated[j]
           ELSE req[r].fetchedAll[i] = req[r].headers[i]
      /\ \A k \in 1..Len(req[r].chunks) :
           Len(req[r].chunks[k]) >= 1 /\ Len(req[r].chunks[k]) <= 40
      /\ \A i \in 1..Len(req[r].headers) :
           getId(req[r].headers[i]) # "" =>
             Cardinality(ChunkPositions(r, getId(req[r].headers[i]))) = 1

\* C29: the buffer holds at most MAX_EVENTS events, the most recently added
\* ones in arrival order; getRecentWebhookEvents(limit) returns at most limit
\* events, the newest first, for every limit >= 0.
C29_WebhookBuffer ==
  /\ Len(buffer) <= MAX_EVENTS
  /\ Len(buffer) = (IF recent.added < MAX_EVENTS THEN recent.added ELSE MAX_EVENTS)
  /\ \A i \in 1..Len(buffer) : buffer[i] = recent.added - Len(buffer) + i
  /\ recent.limit # <<>> =>
       /\ Len(recent.events) <= recent.limit[1]
       /\ \A i \in 1..Len(recent.events) : recent.events[i] = recent.events[1] - i + 1

\* the request r has refreshed the token set and updateCurrentSessionTokenSet
\* has settled
PersistSettled(r) == req[r].ts # NoToken /\ req[r].pc # "persist"

====
